---------------------------- MODULE Spec2Model ----------------------------
(***************************************************************************)
(* A model of rsh: the tokenizer (src/src/token.rs), the recursive-descent *)
(* parser (src/src/parser.rs), the execution engine (src/src/engine.rs),   *)
(* the loop and the result drain of the shell (src/src/shell.rs), and the  *)
(* two line-input front ends: the quote-aware line reader                  *)
(* (src/src/term_interface.rs) and the screen buffer (src/src/terminal.rs).*)
(*                                                                         *)
(* A &str is a sequence of bytes; every byte is written as a one-element   *)
(* string, and the two bytes of the one multi-byte character of the model  *)
(* (U+00E9) are written "C3" and "A9".  Offsets are byte offsets counted   *)
(* from 0, as in Rust.                                                     *)
(***************************************************************************)
EXTENDS Integers, Sequences, FiniteSets, TLC

VARIABLES
    src,        \* the line handed to Tokenizer::new / Parser::new
    input,      \* Tokenizer.input: the part of the line not yet consumed
    emitted,    \* the tokens next_token has returned so far, in order
    tdone,      \* next_token has returned None
    presult,    \* what Parser::parse returned for src (NoResult before the call)
    root,       \* Engine.root
    stack,      \* the pending part of Engine::execute_node's traversal
    ctx,        \* the EngineCtx of the run
    procs,      \* the operating system's process table, indexed by pid
    fs,         \* the files of the working directory
    handles,    \* the files opened by the engine, in the order of the opens
    outcome,    \* how far the run is: executing, returned, panicked, ...
    shell,      \* Rsh::run: its position, the lines it has read and the child
                \* handle_prog_result took
    ti,         \* the TermInterface, its reader and its writer
    buffer,     \* the String the caller hands to TermInterface::read_input
    ret,        \* what the last call of read_input returned
    typed,      \* history: the characters handle_char was given since the last
                \* hand-over to the caller
    term        \* the screen-buffer Terminal

vars == << src, input, emitted, tdone, presult,
           root, stack, ctx, procs, fs, handles, outcome, shell,
           ti, buffer, ret, typed, term >>

frontVars == << ti, buffer, ret, typed, term >>

parserVars == << src, input, emitted, tdone, presult >>

engineVars == << root, stack, ctx, procs, fs, handles, outcome, shell >>

(***************************************************************************)
(* Bounds of the model.                                                    *)
(***************************************************************************)
MaxLen == 4          \* characters in a line

MaxNodes == 3        \* nodes in a syntax tree handed to Engine::new

MaxStages == 3       \* stages of a pipeline handed to Engine::new

MaxWrite == 2        \* chunks a process writes to its stdout and stderr before it exits

PipeCap == 1         \* chunks an operating-system pipe holds before its writer blocks

MaxLines == 2        \* lines Rsh::run reads

MaxInput == 5        \* characters the reader of a TermInterface holds, newlines included

MaxRows == 2         \* rows of the screen of a Terminal

MaxCols == 2         \* columns of the screen of a Terminal

MaxKeys == 4         \* keys one turn of the loop of Terminal::run reads

MaxLine == 5         \* characters in a line handed to the parser alone

(***************************************************************************)
(* Characters and strings.                                                 *)
(***************************************************************************)
DQuote == "\""

Tab == "\t"

Backslash == "\\"

EAcute == <<"C3", "A9">>

\* The characters a line of the model is made of, each as its UTF-8 bytes.
Chars ==
    { <<"a">>, <<"|">>, <<">">>, <<"<">>, <<"&">>, <<"'">>, <<DQuote>>,
      <<" ">>, <<Tab>>, <<Backslash>>, EAcute }

RECURSIVE Lines(_)
\* The UTF-8 encodings of the strings of at most n characters.
Lines(n) ==
    IF n = 0 THEN { <<>> }
    ELSE LET shorter == Lines(n - 1)
         IN  shorter \cup { c \o s : c \in Chars, s \in shorter }

\* The characters the grammar of the parser tells apart: letters, the
\* operators, the quotes and the space.
GrammarChars ==
    { <<"a">>, <<"b">>, <<"|">>, <<">">>, <<"<">>, <<"&">>, <<"'">>, <<DQuote>>,
      <<" ">> }

RECURSIVE GrammarLines(_)
\* The strings of at most n characters of GrammarChars.
GrammarLines(n) ==
    IF n = 0 THEN { <<>> }
    ELSE LET shorter == GrammarLines(n - 1)
         IN  shorter \cup { c \o s : c \in GrammarChars, s \in shorter }

Slice(s, from, to) == SubSeq(s, from + 1, to)

\* s[from..]
SliceFrom(s, from) == SubSeq(s, from + 1, Len(s))

\* char::len_utf8 of the character that starts at byte offset idx of s.
LenUtf8At(s, idx) == IF s[idx + 1] = "C3" THEN 2 ELSE 1

\* The character that starts at byte offset idx of s, as its bytes.
CharAt(s, idx) == Slice(s, idx, idx + LenUtf8At(s, idx))

IsWhitespace(c) == c \in { <<" ">>, <<Tab>> }

RECURSIVE TrimStart(_)
TrimStart(s) ==
    IF s # <<>> /\ IsWhitespace(CharAt(s, 0))
    THEN TrimStart(SliceFrom(s, LenUtf8At(s, 0)))
    ELSE s

(***************************************************************************)
(* token.rs                                                                *)
(***************************************************************************)
None == [some |-> FALSE]

Some(v) == [some |-> TRUE, val |-> v]

Text(s) == [kind |-> "Text", text |-> s]

Tok(k) == [kind |-> k]

TokenNew(token) ==
    CASE token = <<"|">> -> Tok("Pipe")
      [] token = <<">">> -> Tok("RedirectOutput")
      [] token = <<"<">> -> Tok("RedirectInput")
      [] token = <<"&">> -> Tok("Background")
      [] token = <<"'">> -> Tok("SingleQuote")
      [] token = <<DQuote>> -> Tok("DoubleQuote")
      [] token = <<" ">> -> Tok("Space")
      [] OTHER -> Text(token)

\* impl Display for Token
TokenToString(t) ==
    CASE t.kind = "Text" -> t.text
      [] t.kind = "Pipe" -> <<"|">>
      [] t.kind = "RedirectOutput" -> <<">">>
      [] t.kind = "RedirectInput" -> <<"<">>
      [] t.kind = "Background" -> <<"&">>
      [] t.kind = "SingleQuote" -> <<"'">>
      [] t.kind = "DoubleQuote" -> <<DQuote>>
      [] t.kind = "Space" -> <<" ">>

\* is_special_token without the arm of the single quote
IsSpecialTokenButSingleQuote(c) ==
    c \in { <<"|">>, <<">">>, <<"<">>, <<"&">>, <<DQuote>>, <<" ">> }

IsSpecialToken(c) ==
    c \in { <<"|">>, <<">">>, <<"<">>, <<"&">>, <<DQuote>>, <<"'">>, <<" ">> }

\* What a tokenizer call returns, with the input it leaves behind.
TokResult(tok, rest) == [tok |-> tok, rest |-> rest]

\* special_token that never advances the stream
SpecialTokenPeeking(inp, advance_stream) ==
    IF inp # <<>>
    THEN LET end == LenUtf8At(inp, 0)
             toke == TokenNew(Slice(inp, 0, end))
         IN  TokResult(Some(toke), inp)
    ELSE TokResult(None, inp)

\* special_token without the test of advance_stream: the stream is advanced
\* by a peek as well.
SpecialTokenAdvancing(inp, advance_stream) ==
    IF inp # <<>>
    THEN LET end == LenUtf8At(inp, 0)
             toke == TokenNew(Slice(inp, 0, end))
         IN  TokResult(Some(toke), SliceFrom(inp, end))
    ELSE TokResult(None, inp)

SpecialToken(inp, advance_stream) ==
    IF inp # <<>>
    THEN LET end == LenUtf8At(inp, 0)
             toke == TokenNew(Slice(inp, 0, end))
         IN  TokResult(Some(toke), IF advance_stream THEN SliceFrom(inp, end) ELSE inp)
    ELSE TokResult(None, inp)

RECURSIVE TextEndAtSpecialOnly(_, _, _)
\* text_token without line 124: end is set only where a special character
\* stops the scan, so a word that runs to the end of the input is lost.
TextEndAtSpecialOnly(inp, idx, end) ==
    IF idx >= Len(inp) THEN end
    ELSE IF IsSpecialToken(CharAt(inp, idx)) THEN idx
    ELSE TextEndAtSpecialOnly(inp, idx + LenUtf8At(inp, idx), end)

RECURSIVE TextEnd(_, _, _)
\* The loop of text_token: idx is the offset of the next character, end the
\* value of the local end before that character is looked at.
TextEnd(inp, idx, end) ==
    IF idx >= Len(inp) THEN end
    ELSE IF IsSpecialToken(CharAt(inp, idx)) THEN idx
    ELSE TextEnd(inp, idx + LenUtf8At(inp, idx), idx + LenUtf8At(inp, idx))

TextToken(inp, advance_stream) ==
    LET end == TextEnd(inp, 0, 0)
    IN  IF end > 0
        THEN TokResult(Some(TokenNew(Slice(inp, 0, end))),
                       IF advance_stream THEN SliceFrom(inp, end) ELSE inp)
        ELSE TokResult(None, inp)

ParseNextToken(inp, advance_stream) ==
    IF inp = <<>> THEN TokResult(None, inp)
    ELSE IF IsSpecialToken(CharAt(inp, 0))
         THEN SpecialToken(inp, advance_stream)
         ELSE TextToken(inp, advance_stream)

IsEmpty(inp) == inp = <<>>

PeekNext(inp) == ParseNextToken(inp, FALSE)

NextToken(inp) == ParseNextToken(inp, TRUE)

\* skip_whitespace that drops one leading whitespace character only
SkipWhitespaceOnce(inp) ==
    IF inp # <<>> /\ IsWhitespace(CharAt(inp, 0))
    THEN SliceFrom(inp, LenUtf8At(inp, 0))
    ELSE inp

SkipWhitespace(inp) == TrimStart(inp)

(***************************************************************************)
(* parser.rs                                                               *)
(***************************************************************************)
UnexpectedToken(s) == [kind |-> "UnexpectedToken", text |-> s]

UnexpectedEOF == [kind |-> "UnexpectedEOF"]

Command(name, args) == [type |-> "Command", name |-> name, args |-> args]

\* The Pipe arm of parse_command with the accumulated node put on the right
\* and the rest of the line on the left.
PipeSwapped(left, right) == [type |-> "Pipe", left |-> right, right |-> left]

Pipe(left, right) == [type |-> "Pipe", left |-> left, right |-> right]

Redirect(command, file, mode) ==
    [type |-> "Redirect", command |-> command, file |-> file, mode |-> mode]

Background(command) == [type |-> "Background", command |-> command]

\* A Result of a parser method, with the tokenizer input the call leaves behind.
Ok(v, rest) == [ok |-> TRUE, val |-> v, rest |-> rest]

Err(e, rest) == [ok |-> FALSE, err |-> e, rest |-> rest]

RECURSIVE GetName(_)
GetName(node) ==
    CASE node.type = "Command" -> Some(node.name)
      [] node.type = "Redirect" -> GetName(node.command)
      [] node.type = "Background" -> GetName(node.command)
      [] OTHER -> None

RECURSIVE GetArgs(_)
GetArgs(node) ==
    CASE node.type = "Command" -> Some(node.args)
      [] node.type = "Redirect" -> GetArgs(node.command)
      [] node.type = "Background" -> GetArgs(node.command)
      [] OTHER -> None

NextIs(inp, token) ==
    LET t == PeekNext(inp).tok
    IN  IF t.some THEN t.val = token ELSE FALSE

RECURSIVE UntilNextLoopOverWords(_, _, _)
\* The while loop of parse_until_next with only the Text tokens pushed
\* to the result.
UntilNextLoopOverWords(inp, token, res) ==
    LET r == NextToken(inp)
    IN  IF r.tok.some
        THEN IF r.tok.val = token
             THEN Ok(res, r.rest)
             ELSE UntilNextLoopOverWords(r.rest, token,
                      IF r.tok.val.kind = "Text" THEN res \o r.tok.val.text ELSE res)
        ELSE Ok(res, r.rest)

RECURSIVE UntilNextLoop(_, _, _)
\* The while loop of parse_until_next.
UntilNextLoop(inp, token, res) ==
    LET r == NextToken(inp)
    IN  IF r.tok.some
        THEN IF r.tok.val = token
             THEN Ok(res, r.rest)
             ELSE UntilNextLoop(r.rest, token, res \o TokenToString(r.tok.val))
        ELSE Ok(res, r.rest)

ParseUntilNext(inp, token) ==
    LET rest == NextToken(inp).rest
    IN  IF IsEmpty(rest)
        THEN Err(UnexpectedEOF, rest)
        ELSE UntilNextLoop(rest, token, <<>>)

\* parse_argument with the rejected token reported by the name of its kind
\* (the Debug form) in the place of its text.
ParseArgumentNamingKind(inp) ==
    LET trimmed == SkipWhitespace(inp)
        r == NextToken(trimmed)
    IN  IF NextIs(trimmed, Tok("SingleQuote"))
        THEN ParseUntilNext(trimmed, Tok("SingleQuote"))
        ELSE IF NextIs(trimmed, Tok("DoubleQuote"))
        THEN ParseUntilNext(trimmed, Tok("DoubleQuote"))
        ELSE IF r.tok.some
        THEN IF r.tok.val.kind = "Text"
             THEN Ok(r.tok.val.text, r.rest)
             ELSE Err(UnexpectedToken(<< r.tok.val.kind >>), r.rest)
        ELSE Err(UnexpectedEOF, r.rest)

ParseArgument(inp) ==
    LET trimmed == SkipWhitespace(inp)
        r == NextToken(trimmed)
    IN  IF NextIs(trimmed, Tok("SingleQuote"))
        THEN ParseUntilNext(trimmed, Tok("SingleQuote"))
        ELSE IF NextIs(trimmed, Tok("DoubleQuote"))
        THEN ParseUntilNext(trimmed, Tok("DoubleQuote"))
        ELSE IF r.tok.some
        THEN IF r.tok.val.kind = "Text"
             THEN Ok(r.tok.val.text, r.rest)
             ELSE Err(UnexpectedToken(TokenToString(r.tok.val)), r.rest)
        ELSE Err(UnexpectedEOF, r.rest)

RECURSIVE SimpleCommandLoopPushingFront(_, _, _)
\* The while loop of parse_simple_command with args.insert(0, ..) in the
\* place of args.push(..).
SimpleCommandLoopPushingFront(inp, name, args) ==
    LET t == PeekNext(inp).tok
    IN  IF ~t.some THEN Ok(Command(name, args), inp)
        ELSE IF t.val.kind \in {"Text", "SingleQuote", "DoubleQuote"}
        THEN LET a == ParseArgument(inp)
             IN  IF a.ok
                 THEN SimpleCommandLoopPushingFront(a.rest, name, << a.val >> \o args)
                 ELSE a
        ELSE IF t.val.kind = "Space"
        THEN SimpleCommandLoopPushingFront(SkipWhitespace(inp), name, args)
        ELSE Ok(Command(name, args), inp)

RECURSIVE SimpleCommandLoop(_, _, _)
\* The while loop of parse_simple_command.
SimpleCommandLoop(inp, name, args) ==
    LET t == PeekNext(inp).tok
    IN  IF ~t.some THEN Ok(Command(name, args), inp)
        ELSE IF t.val.kind \in {"Text", "SingleQuote", "DoubleQuote"}
        THEN LET a == ParseArgument(inp)
             IN  IF a.ok
                 THEN SimpleCommandLoop(a.rest, name, Append(args, a.val))
                 ELSE a
        ELSE IF t.val.kind = "Space"
        THEN SimpleCommandLoop(SkipWhitespace(inp), name, args)
        ELSE Ok(Command(name, args), inp)

ParseSimpleCommand(inp) ==
    LET name == ParseArgument(inp)
    IN  IF name.ok THEN SimpleCommandLoop(name.rest, name.val, <<>>) ELSE name

RECURSIVE CommandLoopOverSimpleCommands(_, _)
\* The while loop of parse_command with the right-hand side of a pipe
\* parsed by parse_simple_command: the loop itself meets what follows.
CommandLoopOverSimpleCommands(inp, command) ==
    LET t == PeekNext(inp).tok
        rest == NextToken(inp).rest
    IN  IF ~t.some THEN Ok(command, inp)
        ELSE CASE t.val.kind = "Pipe" ->
                    LET right == ParseSimpleCommand(rest)
                    IN  IF right.ok
                        THEN CommandLoopOverSimpleCommands(right.rest, Pipe(command, right.val))
                        ELSE right
               [] t.val.kind = "RedirectOutput" ->
                    LET file == ParseArgument(rest)
                    IN  IF file.ok
                        THEN CommandLoopOverSimpleCommands(file.rest,
                                                           Redirect(command, file.val, "Write"))
                        ELSE file
               [] t.val.kind = "RedirectInput" ->
                    LET file == ParseArgument(rest)
                    IN  IF file.ok
                        THEN CommandLoopOverSimpleCommands(file.rest,
                                                           Redirect(command, file.val, "Read"))
                        ELSE file
               [] t.val.kind = "Background" ->
                    CommandLoopOverSimpleCommands(rest, Background(command))
               [] OTHER -> Ok(command, inp)

RECURSIVE ParseCommand(_)
RECURSIVE CommandLoopWithAppend(_, _)
\* The while loop of parse_command with a RedirectOutput arm that takes a
\* second '>' right after the first as the operator of mode Append.
CommandLoopWithAppend(inp, command) ==
    LET t == PeekNext(inp).tok
        rest == NextToken(inp).rest
    IN  IF ~t.some THEN Ok(command, inp)
        ELSE CASE t.val.kind = "Pipe" ->
                    LET right == ParseCommand(rest)
                    IN  IF right.ok
                        THEN CommandLoopWithAppend(right.rest, Pipe(command, right.val))
                        ELSE right
               [] t.val.kind = "RedirectOutput" ->
                    LET append == NextIs(rest, Tok("RedirectOutput"))
                        file == ParseArgument(IF append THEN NextToken(rest).rest ELSE rest)
                    IN  IF file.ok
                        THEN CommandLoopWithAppend(
                                 file.rest,
                                 Redirect(command, file.val, IF append THEN "Append" ELSE "Write"))
                        ELSE file
               [] t.val.kind = "RedirectInput" ->
                    LET file == ParseArgument(rest)
                    IN  IF file.ok
                        THEN CommandLoopWithAppend(file.rest, Redirect(command, file.val, "Read"))
                        ELSE file
               [] t.val.kind = "Background" ->
                    CommandLoopWithAppend(rest, Background(command))
               [] OTHER -> Ok(command, inp)

RECURSIVE CommandLoop(_, _)
\* The while loop of parse_command.
CommandLoop(inp, command) ==
    LET t == PeekNext(inp).tok
        rest == NextToken(inp).rest
    IN  IF ~t.some THEN Ok(command, inp)
        ELSE CASE t.val.kind = "Pipe" ->
                    LET right == ParseCommand(rest)
                    IN  IF right.ok
                        THEN CommandLoop(right.rest, Pipe(command, right.val))
                        ELSE right
               [] t.val.kind = "RedirectOutput" ->
                    LET file == ParseArgument(rest)
                    IN  IF file.ok
                        THEN CommandLoop(file.rest, Redirect(command, file.val, "Write"))
                        ELSE file
               [] t.val.kind = "RedirectInput" ->
                    LET file == ParseArgument(rest)
                    IN  IF file.ok
                        THEN CommandLoop(file.rest, Redirect(command, file.val, "Read"))
                        ELSE file
               [] t.val.kind = "Background" ->
                    CommandLoop(rest, Background(command))
               [] OTHER -> Ok(command, inp)

ParseCommand(inp) ==
    LET command == ParseSimpleCommand(inp)
    IN  IF command.ok THEN CommandLoop(command.rest, command.val) ELSE command

\* Parser::new(line).parse()
Parse(line) == ParseCommand(line)

(***************************************************************************)
(* The operating system as the engine sees it: files, processes, streams.  *)
(***************************************************************************)
\* The programs a spawn finds; the spawn of any other name fails.
Executables == { <<"a">> }

FileNames == { <<"f">>, <<"g">> }

Modes == { "Read", "Write", "Append" }

\* A file of the working directory.  A chunk of data is the pid of the
\* process that wrote it; 0 marks what the file held before the run.
Absent == [exists |-> FALSE, denied |-> FALSE, data |-> <<>>]

Old == [exists |-> TRUE, denied |-> FALSE, data |-> <<0>>]

Denied == [exists |-> TRUE, denied |-> TRUE, data |-> <<0>>]

\* std::io::Result of an open, with the file system it leaves behind.
OpenOk(fsys, hs) == [ok |-> TRUE, fs |-> fsys, handles |-> hs]

OpenErr(kind, fsys, hs) == [ok |-> FALSE, err |-> kind, fs |-> fsys, handles |-> hs]

Handle(fsys, file, mode) ==
    [file |-> file, mode |-> mode, existed |-> fsys[file].exists]

\* File::open(file)
FileOpen(fsys, hs, file) ==
    IF ~fsys[file].exists THEN OpenErr("NotFound", fsys, hs)
    ELSE IF fsys[file].denied THEN OpenErr("PermissionDenied", fsys, hs)
    ELSE OpenOk(fsys, Append(hs, Handle(fsys, file, "Read")))

\* OpenOptions::new().write(true).create(true).open(file) in the place of
\* File::create(file): what the file holds is kept.
FileCreateKeeping(fsys, hs, file) ==
    IF fsys[file].denied THEN OpenErr("PermissionDenied", fsys, hs)
    ELSE OpenOk([fsys EXCEPT ![file].exists = TRUE],
                Append(hs, Handle(fsys, file, "Write")))

\* File::create(file): create, or truncate what is there
FileCreate(fsys, hs, file) ==
    IF fsys[file].denied THEN OpenErr("PermissionDenied", fsys, hs)
    ELSE OpenOk([fsys EXCEPT ![file] = [exists |-> TRUE, denied |-> FALSE, data |-> <<>>]],
                Append(hs, Handle(fsys, file, "Write")))

\* OpenOptions::new().append(true).open(file): no create(true)
OpenAppend(fsys, hs, file) ==
    IF ~fsys[file].exists THEN OpenErr("NotFound", fsys, hs)
    ELSE IF fsys[file].denied THEN OpenErr("PermissionDenied", fsys, hs)
    ELSE OpenOk(fsys, Append(hs, Handle(fsys, file, "Append")))

\* process::Stdio::piped()
Piped == [kind |-> "piped"]

\* A std::fs::File given as a stream
FileStream(file, mode) == [kind |-> "file", file |-> file, mode |-> mode]

\* The ChildStdout of an earlier child given as a stream
ChildStdout(pid) == [kind |-> "child_stdout", pid |-> pid]

\* A process of the process table.  written and errwritten count the chunks
\* it has written to its stdout and stderr; outbuf and errbuf are the chunks
\* held by the pipes behind them; outend and errend say where the read end
\* of each pipe is: in the Child of the shell ("child"), with a drain thread
\* of the shell ("drain"), given to the next process as its stdin ("stdin"),
\* closed ("closed"), or "none" when the stream is no pipe.
Process(name, args, stdin, stdout, stderr) ==
    [name |-> name, args |-> args, stdin |-> stdin, stdout |-> stdout,
     stderr |-> stderr, state |-> "running", written |-> 0, errwritten |-> 0,
     outbuf |-> 0, errbuf |-> 0,
     outend |-> IF stdout.kind = "piped" THEN "child" ELSE "none",
     errend |-> IF stderr.kind = "piped" THEN "child" ELSE "none"]

\* process::Child: the pid and which of its stream handles are Some.
Child(pid, proc) ==
    [pid |-> pid,
     stdin |-> proc.stdin.kind = "piped",
     stdout |-> proc.stdout.kind = "piped",
     stderr |-> proc.stderr.kind = "piped"]

\* Command::spawn finds the program or fails with NotFound.
SpawnOk(name) == name \in Executables

(***************************************************************************)
(* engine.rs: EngineCtx                                                    *)
(***************************************************************************)
EngineCtxNew == [command_count |-> 0, should_pipe |-> FALSE, children |-> <<>>]

AddChild(c, child) ==
    [c EXCEPT !.children = Append(@, child), !.command_count = @ + 1]

\* take_last_child giving the child at the front of the Vec
GetFirstChild(c) ==
    IF c.children = <<>> THEN None ELSE Some(c.children[1])

GetLastChild(c) ==
    IF c.children = <<>> THEN None ELSE Some(c.children[Len(c.children)])

\* take_last_child: the context the pop leaves behind
PopLastChild(c) ==
    IF c.children = <<>> THEN c
    ELSE [c EXCEPT !.children = SubSeq(@, 1, Len(@) - 1)]

\* set_pipe that only ever raises the flag
SetPipeNeverCleared(c, should_pipe) == [c EXCEPT !.should_pipe = @ \/ should_pipe]

SetPipe(c, should_pipe) == [c EXCEPT !.should_pipe = should_pipe]

\* Dropping the context drops its Vec<process::Child>: the handles are closed,
\* no child is waited on or killed.
DropCtx(c) == [c EXCEPT !.children = <<>>]

\* What dropping a process::Child does to the process table: the read ends
\* the Child still holds are closed.
DropChild(ps, pid) ==
    [ps EXCEPT ![pid].outend = IF @ = "child" THEN "closed" ELSE @,
               ![pid].errend = IF @ = "child" THEN "closed" ELSE @]

RECURSIVE DropChildren(_, _)
DropChildren(ps, children) ==
    IF children = <<>> THEN ps
    ELSE DropChildren(DropChild(ps, Head(children).pid), Tail(children))

\* The end of the shell process: every descriptor it holds is closed, those
\* of its drain threads included.
ShellExit(ps) ==
    [pid \in DOMAIN ps |->
        [ps[pid] EXCEPT !.outend = IF @ \in {"child", "drain"} THEN "closed" ELSE @,
                        !.errend = IF @ \in {"child", "drain"} THEN "closed" ELSE @]]

(***************************************************************************)
(* engine.rs: Engine.  The methods take and return the state they work on: *)
(* the context, the process table, the files and how the run stands.       *)
(***************************************************************************)
Executing == [state |-> "executing", msg |-> "", err |-> ""]

Returned == [state |-> "returned", msg |-> "", err |-> ""]

Panicked(msg, err) == [state |-> "panicked", msg |-> msg, err |-> err]

\* The panic message of Option::unwrap on None
UnwrapNone == "called Option::unwrap() on a None value"

EngineState ==
    [ctx |-> ctx, procs |-> procs, fs |-> fs, handles |-> handles, outcome |-> outcome]

\* A panic (expect, unwrap, todo!) unwinds out of execute: the context is
\* dropped on the way, no value reaches the caller and the shell process
\* ends.
Panic(st, msg, err) ==
    [st EXCEPT !.outcome = Panicked(msg, err), !.ctx = DropCtx(@),
               !.procs = ShellExit(@)]

\* command.spawn().expect("failed to execute process"); ctx.add_child(child)
SpawnAndAdd(st, name, args, stdin, stdout, stderr) ==
    IF SpawnOk(name)
    THEN LET proc == Process(name, args, stdin, stdout, stderr)
         IN  [st EXCEPT !.procs = Append(@, proc),
                        !.ctx = AddChild(@, Child(Len(st.procs) + 1, proc))]
    ELSE Panic(st, "failed to execute process", "NotFound")

\* execute_cmd_std without .stderr(Stdio::piped()): the stderr of the shell
\* is inherited
ExecuteCmdStdInheritingStderr(st, name, args) ==
    SpawnAndAdd(st, name, args, Piped, Piped, [kind |-> "inherit"])

ExecuteCmdStd(st, name, args) == SpawnAndAdd(st, name, args, Piped, Piped, Piped)

\* execute_cmd_redir with the Read arm written as
\* if let Ok(file) = File::open(file) { command.stdin(file) }: a file that
\* cannot be opened is passed over and the command is spawned all the same.
ExecuteCmdRedirSkippingOpenError(st, name, args, file, mode) ==
    CASE mode = "Read" ->
            LET o == FileOpen(st.fs, st.handles, file)
            IN  IF o.ok
                THEN SpawnAndAdd([st EXCEPT !.fs = o.fs, !.handles = o.handles],
                                 name, args, FileStream(file, mode), Piped, Piped)
                ELSE SpawnAndAdd(st, name, args, Piped, Piped, Piped)
      [] mode = "Write" ->
            LET o == FileCreate(st.fs, st.handles, file)
            IN  IF o.ok
                THEN SpawnAndAdd([st EXCEPT !.fs = o.fs, !.handles = o.handles],
                                 name, args, Piped, FileStream(file, mode), Piped)
                ELSE Panic(st, "failed to create file", o.err)
      [] mode = "Append" ->
            LET o == OpenAppend(st.fs, st.handles, file)
            IN  IF o.ok
                THEN SpawnAndAdd([st EXCEPT !.fs = o.fs, !.handles = o.handles],
                                 name, args, Piped, FileStream(file, mode), Piped)
                ELSE Panic(st, "failed to open file", o.err)

\* execute_cmd_redir with the program looked up before the file is opened:
\* a program that is not there ends the call with the file untouched.
ExecuteCmdRedirSpawningFirst(st, name, args, file, mode) ==
    IF ~SpawnOk(name)
    THEN Panic(st, "failed to execute process", "NotFound")
    ELSE CASE mode = "Read" ->
                 LET o == FileOpen(st.fs, st.handles, file)
                 IN  IF o.ok
                     THEN SpawnAndAdd([st EXCEPT !.fs = o.fs, !.handles = o.handles],
                                      name, args, FileStream(file, mode), Piped, Piped)
                     ELSE Panic(st, "failed to open file", o.err)
           [] mode = "Write" ->
                 LET o == FileCreate(st.fs, st.handles, file)
                 IN  IF o.ok
                     THEN SpawnAndAdd([st EXCEPT !.fs = o.fs, !.handles = o.handles],
                                      name, args, Piped, FileStream(file, mode), Piped)
                     ELSE Panic(st, "failed to create file", o.err)
           [] mode = "Append" ->
                 LET o == OpenAppend(st.fs, st.handles, file)
                 IN  IF o.ok
                     THEN SpawnAndAdd([st EXCEPT !.fs = o.fs, !.handles = o.handles],
                                      name, args, Piped, FileStream(file, mode), Piped)
                     ELSE Panic(st, "failed to open file", o.err)

ExecuteCmdRedir(st, name, args, file, mode) ==
    CASE mode = "Read" ->
            LET o == FileOpen(st.fs, st.handles, file)
            IN  IF o.ok
                THEN SpawnAndAdd([st EXCEPT !.fs = o.fs, !.handles = o.handles],
                                 name, args, FileStream(file, mode), Piped, Piped)
                ELSE Panic(st, "failed to open file", o.err)
      [] mode = "Write" ->
            LET o == FileCreate(st.fs, st.handles, file)
            IN  IF o.ok
                THEN SpawnAndAdd([st EXCEPT !.fs = o.fs, !.handles = o.handles],
                                 name, args, Piped, FileStream(file, mode), Piped)
                ELSE Panic(st, "failed to create file", o.err)
      [] mode = "Append" ->
            LET o == OpenAppend(st.fs, st.handles, file)
            IN  IF o.ok
                THEN SpawnAndAdd([st EXCEPT !.fs = o.fs, !.handles = o.handles],
                                 name, args, Piped, FileStream(file, mode), Piped)
                ELSE Panic(st, "failed to open file", o.err)

\* The previous child is taken out of the context, its stdout becomes the
\* stdin of the command, and what is left of it is dropped.
ExecuteCmdPipe(st, name, args) ==
    LET last_child == GetLastChild(st.ctx)
        taken == [st EXCEPT !.ctx = PopLastChild(@)]
    IN  IF ~last_child.some
        THEN Panic(st, UnwrapNone, "")
        ELSE IF ~last_child.val.stdout
        THEN Panic([taken EXCEPT !.procs = DropChild(@, last_child.val.pid)], UnwrapNone, "")
        ELSE SpawnAndAdd([taken EXCEPT !.procs[last_child.val.pid].outend = "stdin",
                                       !.procs[last_child.val.pid].errend = "closed"],
                         name, args, ChildStdout(last_child.val.pid), Piped, Piped)

\* The traversal of execute_node, as the calls still to be made.
NodeFrame(node) == [op |-> "node", node |-> node]

SetPipeFrame(should_pipe) == [op |-> "set_pipe", val |-> should_pipe]

AtNode(type) ==
    /\ outcome.state = "executing"
    /\ stack # <<>>
    /\ Head(stack).op = "node"
    /\ Head(stack).node.type = type

\* What a step of the traversal leaves behind when the call it made ended in st.
Continue(st, rest) ==
    /\ ctx' = st.ctx
    /\ procs' = st.procs
    /\ fs' = st.fs
    /\ handles' = st.handles
    /\ outcome' = st.outcome
    /\ stack' = IF st.outcome.state = "panicked" THEN <<>> ELSE rest
    /\ UNCHANGED << root, shell >>
    /\ UNCHANGED parserVars
    /\ UNCHANGED frontVars

\* execute_node, Command arm
ExecuteNodeCommand ==
    /\ AtNode("Command")
    /\ LET node == Head(stack).node
       IN  IF ctx.should_pipe
           THEN Continue(ExecuteCmdPipe(EngineState, node.name, node.args), Tail(stack))
           ELSE Continue(ExecuteCmdStd(EngineState, node.name, node.args), Tail(stack))

\* execute_node, Redirect arm
ExecuteNodeRedirect ==
    /\ AtNode("Redirect")
    /\ LET node == Head(stack).node
           name == GetName(node.command)
           args == GetArgs(node.command)
       IN  IF name.some /\ args.some
           THEN Continue(ExecuteCmdRedir(EngineState, name.val, args.val, node.file, node.mode),
                         Tail(stack))
           ELSE Continue(Panic(EngineState, UnwrapNone, ""),
                         Tail(stack))

\* execute_node, Pipe arm: left, set_pipe(true), right, set_pipe(false)
ExecuteNodePipe ==
    /\ AtNode("Pipe")
    /\ LET node == Head(stack).node
       IN  stack' = << NodeFrame(node.left), SetPipeFrame(TRUE),
                       NodeFrame(node.right), SetPipeFrame(FALSE) >> \o Tail(stack)
    /\ UNCHANGED << root, ctx, procs, fs, handles, outcome, shell >>
    /\ UNCHANGED parserVars
    /\ UNCHANGED frontVars

\* ctx.set_pipe(..) of the Pipe arm
ExecuteSetPipe ==
    /\ outcome.state = "executing"
    /\ stack # <<>>
    /\ Head(stack).op = "set_pipe"
    /\ ctx' = SetPipe(ctx, Head(stack).val)
    /\ stack' = Tail(stack)
    /\ UNCHANGED << root, procs, fs, handles, outcome, shell >>
    /\ UNCHANGED parserVars
    /\ UNCHANGED frontVars

\* execute_node, the arm of every other node type: todo!()
ExecuteNodeTodo ==
    /\ AtNode("Background")
    /\ Continue(Panic(EngineState, "not yet implemented: implement the rest of the node types", ""),
                Tail(stack))

\* Engine::execute returns the context to Rsh::run
ExecuteReturn ==
    /\ outcome.state = "executing"
    /\ stack = <<>>
    /\ outcome' = Returned
    /\ shell' = [shell EXCEPT !.pc = "handle_prog_result"]
    /\ UNCHANGED << root, stack, ctx, procs, fs, handles >>
    /\ UNCHANGED parserVars
    /\ UNCHANGED frontVars

(***************************************************************************)
(* shell.rs: what Rsh::run does with the context execute returned.         *)
(***************************************************************************)
\* handle_prog_result with the thread for stdout only: the stderr of the
\* child stays in the Child, where nothing reads it.
HandleProgResultDrainingStdoutOnly ==
    /\ shell.pc = "handle_prog_result"
    /\ LET c == GetLastChild(ctx)
       IN  IF c.some
           THEN /\ ctx' = PopLastChild(ctx)
                /\ procs' = [procs EXCEPT
                                ![c.val.pid].outend = IF c.val.stdout THEN "drain" ELSE @]
                /\ shell' = [shell EXCEPT !.pc = "wait", !.child = c.val.pid]
           ELSE /\ shell' = [shell EXCEPT !.pc = "returned"]
                /\ UNCHANGED << ctx, procs >>
    /\ UNCHANGED << root, stack, fs, handles, outcome >>
    /\ UNCHANGED parserVars
    /\ UNCHANGED frontVars

\* handle_prog_result up to c.wait(): the last child of the context is
\* taken, and for each of its stdout and stderr that is there a thread is
\* spawned that copies it to the shell's own stream
HandleProgResult ==
    /\ shell.pc = "handle_prog_result"
    /\ LET c == GetLastChild(ctx)
       IN  IF c.some
           THEN /\ ctx' = PopLastChild(ctx)
                /\ procs' = [procs EXCEPT
                                ![c.val.pid].outend = IF c.val.stdout THEN "drain" ELSE @,
                                ![c.val.pid].errend = IF c.val.stderr THEN "drain" ELSE @]
                /\ shell' = [shell EXCEPT !.pc = "wait", !.child = c.val.pid]
           ELSE /\ shell' = [shell EXCEPT !.pc = "returned"]
                /\ UNCHANGED << ctx, procs >>
    /\ UNCHANGED << root, stack, fs, handles, outcome >>
    /\ UNCHANGED parserVars
    /\ UNCHANGED frontVars

\* A drain thread copies a chunk out of the pipe it was given (io::copy)
Drain(pid, stream) ==
    /\ pid \in DOMAIN procs
    /\ \/ /\ stream = "stdout"
          /\ procs[pid].outend = "drain"
          /\ procs[pid].outbuf > 0
          /\ procs' = [procs EXCEPT ![pid].outbuf = @ - 1]
       \/ /\ stream = "stderr"
          /\ procs[pid].errend = "drain"
          /\ procs[pid].errbuf > 0
          /\ procs' = [procs EXCEPT ![pid].errbuf = @ - 1]
    /\ UNCHANGED << root, stack, ctx, fs, handles, outcome, shell >>
    /\ UNCHANGED parserVars
    /\ UNCHANGED frontVars

\* c.wait() returns once the child has exited, and reaps it
HandleProgResultWait ==
    /\ shell.pc = "wait"
    /\ procs[shell.child].state = "exited"
    /\ procs' = [procs EXCEPT ![shell.child].state = "reaped"]
    /\ shell' = [shell EXCEPT !.pc = "returned"]
    /\ UNCHANGED << root, stack, ctx, fs, handles, outcome >>
    /\ UNCHANGED parserVars
    /\ UNCHANGED frontVars

\* prog goes out of scope at the end of the if-let block of Rsh::run
DropProg ==
    /\ shell.pc = "returned"
    /\ ctx' = DropCtx(ctx)
    /\ procs' = DropChildren(procs, ctx.children)
    /\ shell' = [shell EXCEPT !.pc = "dropped"]
    /\ UNCHANGED << root, stack, fs, handles, outcome >>
    /\ UNCHANGED parserVars
    /\ UNCHANGED frontVars

(***************************************************************************)
(* The spawned programs: each writes chunks to its stdout or its stderr,   *)
(* may read what its stdin holds, and exits once it is done, or before.  A *)
(* write to a full pipe blocks as long as a reader is there.               *)
(***************************************************************************)
WriteTo(fsys, stream, pid) ==
    IF stream.kind = "file"
    THEN [fsys EXCEPT ![stream.file].data = Append(@, pid)]
    ELSE fsys

\* The running processes that have the stdout of pid as their stdin.
Consumers(ps, pid) ==
    { c \in DOMAIN ps : ps[c].state = "running" /\ ps[c].stdin = ChildStdout(pid) }

\* Nothing holds the read end of the pipe any more: a write to it fails at
\* once in the place of blocking.
ReaderGone(ps, pid, stream) ==
    IF stream = "stdout"
    THEN \/ ps[pid].outend = "closed"
         \/ ps[pid].outend = "stdin" /\ Consumers(ps, pid) = {}
    ELSE ps[pid].errend = "closed"

\* What the program a does with its arguments: it writes MaxWrite chunks,
\* the k-th to the stream its k-th argument names (1 for stdout, 2 for
\* stderr), the arguments taken in turn; without arguments it writes
\* nothing.
Program(args) ==
    IF args = <<>> THEN <<>>
    ELSE [k \in 1 .. MaxWrite |->
             IF args[((k - 1) % Len(args)) + 1] = <<"2">> THEN "stderr" ELSE "stdout"]

Written(proc) == proc.written + proc.errwritten

\* The process has written all that its program writes.
AllWritten(proc) == Written(proc) = Len(Program(proc.args))

\* The stream the next chunk of the process goes to.
NextStream(proc) == Program(proc.args)[Written(proc) + 1]

ProcWrite(pid) ==
    /\ pid \in DOMAIN procs
    /\ procs[pid].state = "running"
    /\ ~AllWritten(procs[pid])
    /\ LET stream == NextStream(procs[pid])
       IN  \/ /\ stream = "stdout"
              /\ procs[pid].stdout.kind = "file"
              /\ procs' = [procs EXCEPT ![pid].written = @ + 1]
              /\ fs' = WriteTo(fs, procs[pid].stdout, pid)
           \/ /\ stream = "stdout"
              /\ procs[pid].stdout.kind = "piped"
              /\ IF ReaderGone(procs, pid, stream)
                 THEN procs' = [procs EXCEPT ![pid].written = @ + 1]
                 ELSE /\ procs[pid].outbuf < PipeCap
                      /\ procs' = [procs EXCEPT ![pid].written = @ + 1,
                                                ![pid].outbuf = @ + 1]
              /\ UNCHANGED fs
           \/ /\ stream = "stderr"
              /\ IF ReaderGone(procs, pid, stream)
                 THEN procs' = [procs EXCEPT ![pid].errwritten = @ + 1]
                 ELSE /\ procs[pid].errbuf < PipeCap
                      /\ procs' = [procs EXCEPT ![pid].errwritten = @ + 1,
                                                ![pid].errbuf = @ + 1]
              /\ UNCHANGED fs
    /\ UNCHANGED << root, stack, ctx, handles, outcome, shell >>
    /\ UNCHANGED parserVars
    /\ UNCHANGED frontVars

\* A process reads a chunk of what the stage before it has written
ProcRead(pid) ==
    /\ pid \in DOMAIN procs
    /\ procs[pid].state = "running"
    /\ procs[pid].stdin.kind = "child_stdout"
    /\ procs[procs[pid].stdin.pid].outbuf > 0
    /\ procs' = [procs EXCEPT ![procs[pid].stdin.pid].outbuf = @ - 1]
    /\ UNCHANGED << root, stack, ctx, fs, handles, outcome, shell >>
    /\ UNCHANGED parserVars
    /\ UNCHANGED frontVars

ProcExit(pid) ==
    /\ pid \in DOMAIN procs
    /\ procs[pid].state = "running"
    /\ procs' = [procs EXCEPT ![pid].state = "exited"]
    /\ UNCHANGED << root, stack, ctx, fs, handles, outcome, shell >>
    /\ UNCHANGED parserVars
    /\ UNCHANGED frontVars

Streams == { "stdout", "stderr" }

\* The pids a spawn can give out: one for every Command node of every line.
Pids == 1 .. (MaxNodes * MaxLines)

(***************************************************************************)
(* The syntax trees Engine::new is given.                                  *)
(***************************************************************************)
\* The program that exists is run to write to its stdout or to its stderr;
\* the other program is not there.
Leaves ==
    { Command(<<"a">>, << <<"1">> >>), Command(<<"a">>, << <<"2">> >>),
      Command(<<"x">>, <<>>) }

\* The stages of the longer pipelines: the program that exists, run without
\* arguments, which writes nothing.
PipelineLeaves == { Command(<<"a">>, <<>>) }

RECURSIVE TreesOfSize(_)
TreesOfSize(n) ==
    IF n = 1 THEN Leaves
    ELSE { Redirect(c, f, m) : c \in TreesOfSize(n - 1), f \in FileNames, m \in Modes }
         \cup { Background(c) : c \in TreesOfSize(n - 1) }
         \cup UNION { { Pipe(l, r) : l \in TreesOfSize(k), r \in TreesOfSize(n - 1 - k) } :
                      k \in 1 .. (n - 2) }

Trees(n) == UNION { TreesOfSize(k) : k \in 1 .. n }

\* The pipelines of n stages, of every shape: the trees made of Pipe nodes
\* over n Command nodes.
RECURSIVE PipelinesOf(_)
PipelinesOf(n) ==
    IF n = 1 THEN PipelineLeaves
    ELSE UNION { { Pipe(l, r) : l \in PipelinesOf(k), r \in PipelinesOf(n - k) } :
                 k \in 1 .. (n - 1) }

Pipelines(n) == UNION { PipelinesOf(k) : k \in 1 .. n }

(***************************************************************************)
(* term_interface.rs: TermInterface, which reads lines from its reader     *)
(* until no quote and no escape is open and hands the text to its caller.  *)
(***************************************************************************)
Newline == "\n"

\* The characters that come from the reader.
InputChars == { "a", "'", DQuote, Backslash, " ", Newline }

\* What a reader holds before its end: up to n characters.
InputStreams(n) == UNION { [1 .. k -> InputChars] : k \in 0 .. n }

\* TermInterface::new(reader, writer, prompt): the writer has nothing yet.
TermInterfaceNew(reader, prompt) ==
    [reader |-> reader, writer |-> <<>>, prompt |-> prompt, tmp_prompt |-> "",
     internal_buffer |-> <<>>, in_single_quote |-> FALSE, in_double_quote |-> FALSE,
     in_escape |-> FALSE]

\* BufRead::read_line: the characters up to and with the first newline, or
\* all that is left; the count of what was read.
ReadLine(reader) ==
    LET newlines == { i \in DOMAIN reader : reader[i] = Newline }
        end == IF newlines = {} THEN Len(reader)
               ELSE CHOOSE i \in newlines : \A j \in newlines : i <= j
    IN  [tmp_string |-> SubSeq(reader, 1, end),
         reader |-> SubSeq(reader, end + 1, Len(reader)),
         line_count |-> end]

\* char::is_whitespace
IsWhite(c) == c \in { " ", Tab, Newline }

RECURSIVE TrimEnd(_)
TrimEnd(s) ==
    IF s # <<>> /\ IsWhite(s[Len(s)]) THEN TrimEnd(SubSeq(s, 1, Len(s) - 1)) ELSE s

RECURSIVE TrimFront(_)
TrimFront(s) == IF s # <<>> /\ IsWhite(Head(s)) THEN TrimFront(Tail(s)) ELSE s

\* str::trim
Trim(s) == TrimEnd(TrimFront(s))

HandleChar(t, c) ==
    CASE c = "'" ->
            IF t.in_escape
            THEN [t EXCEPT !.internal_buffer = Append(@, c), !.in_escape = FALSE]
            ELSE IF t.in_double_quote
            THEN [t EXCEPT !.internal_buffer = Append(@, c)]
            ELSE [t EXCEPT !.in_single_quote = ~@]
      [] c = DQuote ->
            IF t.in_escape
            THEN [t EXCEPT !.internal_buffer = Append(@, c), !.in_escape = FALSE]
            ELSE IF t.in_single_quote
            THEN [t EXCEPT !.internal_buffer = Append(@, c)]
            ELSE [t EXCEPT !.in_double_quote = ~@]
      [] c = Backslash ->
            IF t.in_escape
            THEN [t EXCEPT !.internal_buffer = Append(@, c), !.in_escape = FALSE]
            ELSE [t EXCEPT !.in_escape = TRUE]
      [] OTHER -> [t EXCEPT !.internal_buffer = Append(@, c)]

RECURSIVE HandleChars(_, _)
\* for c in tmp_string.trim().chars() { self.handle_char(c) }
HandleChars(t, chars) ==
    IF chars = <<>> THEN t ELSE HandleChars(HandleChar(t, Head(chars)), Tail(chars))

IsTerminated(t) == ~t.in_single_quote /\ ~t.in_double_quote /\ ~t.in_escape

UpdatePrompt(t) ==
    IF t.in_double_quote \/ t.in_escape
    THEN [t EXCEPT !.tmp_prompt = "dquote"]
    ELSE [t EXCEPT !.tmp_prompt = "quote"]

ResetState(t) == [t EXCEPT !.internal_buffer = <<>>, !.tmp_prompt = ""]

\* Ok(n) of io::Result<usize>
OkCount(n) == [ok |-> TRUE, val |-> n]

\* read_input(buffer): the prompts are written, a line is read and its
\* characters handled; the text is handed over when nothing is open.  A
\* caller calls while the reader holds something, and once on an empty one.
ReadInput ==
    /\ ti.reader # <<>> \/ ret = None
    /\ LET prompted == [ti EXCEPT !.writer = @ \o << ti.tmp_prompt, ti.prompt >>]
           r == ReadLine(prompted.reader)
           chars == Trim(r.tmp_string)
           after == HandleChars([prompted EXCEPT !.reader = r.reader], chars)
       IN  IF IsTerminated(after)
           THEN /\ buffer' = buffer \o after.internal_buffer
                /\ ti' = ResetState(after)
                /\ ret' = Some(OkCount(r.line_count))
                /\ typed' = <<>>
           ELSE /\ ti' = UpdatePrompt(after)
                /\ ret' = Some(OkCount(0))
                /\ typed' = typed \o chars
                /\ UNCHANGED buffer
    /\ UNCHANGED term
    /\ UNCHANGED parserVars
    /\ UNCHANGED engineVars

TermInterfaceIdle ==
    /\ ti = TermInterfaceNew(<<>>, "$")
    /\ buffer = <<>>
    /\ ret = None
    /\ typed = <<>>

(***************************************************************************)
(* terminal.rs: Terminal, the screen buffer that the keys are typed into.  *)
(* cursor_row and cursor_col count from 0 as in the code; a panic of the   *)
(* code (an index out of bounds) ends the terminal in the state            *)
(* "panicked" with the fields as they were when it happened.  What is      *)
(* written to the writer is not part of the model.                         *)
(***************************************************************************)
\* A key as handle_key_press and its helpers look at it: get_type() and
\* get_char().
Key(type, char) == [type |-> type, char |-> char]

Keys ==
    { Key("Char", c) : c \in { "a", "[", "C", "D", "3", "~" } }
        \cup { Key("EndOfText", "ETX"), Key("Escape", "ESC"), Key("Delete", "DEL"),
               Key("Other", "NUL") }

RECURSIVE KeySeqs(_)
\* The keys that one turn of the loop may read, up to n of them: one key,
\* or an Escape and the keys that handle_escape_sequence and
\* handle_arrow_keys wait for after it.
KeySeqs(n) ==
    IF n = 0 THEN {}
    ELSE { << k >> : k \in Keys \ { Key("Escape", "ESC") } }
         \cup { << Key("Escape", "ESC") >> \o s :
                    s \in { r \in KeySeqs(n - 1) : Head(r).char # "[" } }
         \cup { << Key("Escape", "ESC"), Key("Char", "["), k >> :
                    k \in { k \in Keys : n >= 3 /\ k.char # "3" } }
         \cup { << Key("Escape", "ESC"), Key("Char", "["), Key("Char", "3"), k >> :
                    k \in { k \in Keys : n >= 4 } }

\* Terminal::new(stdin, writer, dimensions)
TerminalNew(dimensions) ==
    [state |-> "running",
     buffer |-> [r \in 1 .. dimensions.rows |-> <<>>],
     dimensions |-> dimensions,
     cursor_row |-> 0,
     cursor_col |-> 0,
     should_exit |-> FALSE]

IndexPanic(t) == [t EXCEPT !.state = "panicked"]

\* VecDeque::insert(index, value), for index <= len
InsertAt(row, index, c) ==
    SubSeq(row, 1, index) \o << c >> \o SubSeq(row, index + 1, Len(row))

\* VecDeque::remove(index): nothing is removed when index >= len
RemoveAt(row, index) ==
    IF index < Len(row)
    THEN SubSeq(row, 1, index) \o SubSeq(row, index + 2, Len(row))
    ELSE row

\* handle_key_press, the arm KeyType::Char
HandleCharKey(t, c) ==
    LET moved ==
            IF t.cursor_col = t.dimensions.cols
            THEN IF t.cursor_row = t.dimensions.rows
                 THEN [t EXCEPT !.buffer = Append(Tail(@), <<>>),
                                !.cursor_row = t.dimensions.rows - 1,
                                !.cursor_col = 0]
                 ELSE [t EXCEPT !.cursor_row = @ + 1, !.cursor_col = 0]
            ELSE t
    IN  IF moved.cursor_row >= Len(moved.buffer)
        THEN IndexPanic(moved)
        ELSE IF moved.cursor_col > Len(moved.buffer[moved.cursor_row + 1])
        THEN IndexPanic(moved)
        ELSE [moved EXCEPT !.buffer[moved.cursor_row + 1] =
                                InsertAt(@, moved.cursor_col, c),
                           !.cursor_col = @ + 1]

HandleDelete(t) ==
    IF t.cursor_col > 0
    THEN IF t.cursor_row >= Len(t.buffer)
         THEN IndexPanic([t EXCEPT !.cursor_col = @ - 1])
         ELSE [t EXCEPT !.cursor_col = @ - 1,
                        !.buffer[t.cursor_row + 1] = RemoveAt(@, t.cursor_col - 1)]
    ELSE t

\* What a handler leaves: the terminal, the keys not yet read, and whether
\* read_key_wait is still waiting for a key.
Handled(t, rest) == [t |-> t, rest |-> rest, waits |-> FALSE]

Waiting(t) == [t |-> t, rest |-> <<>>, waits |-> TRUE]

HandleArrowKeys(t, keys) ==
    IF keys = <<>> THEN Waiting(t)
    ELSE LET key2 == Head(keys)
             rest == Tail(keys)
         IN  CASE key2.char = "C" ->
                    IF t.cursor_row >= Len(t.buffer) THEN Handled(IndexPanic(t), rest)
                    ELSE IF t.cursor_col < Len(t.buffer[t.cursor_row + 1])
                    THEN Handled([t EXCEPT !.cursor_col = @ + 1], rest)
                    ELSE Handled(t, rest)
               [] key2.char = "D" ->
                    IF t.cursor_col > 0
                    THEN Handled([t EXCEPT !.cursor_col = @ - 1], rest)
                    ELSE Handled(t, rest)
               [] key2.char = "3" ->
                    IF rest = <<>> THEN Waiting(t)
                    ELSE IF Head(rest).char = "~"
                    THEN Handled(HandleDelete(t), Tail(rest))
                    ELSE Handled(t, Tail(rest))
               [] OTHER -> Handled(t, rest)

RECURSIVE HandleKeyPress(_, _)
\* handle_key_press(key) with handle_escape_sequence, which reads the keys
\* that follow an Escape: key is the first of keys.
HandleKeyPress(t, keys) ==
    LET key == Head(keys)
        rest == Tail(keys)
    IN  CASE key.type = "Char" -> Handled(HandleCharKey(t, key.char), rest)
          [] key.type = "EndOfText" -> Handled([t EXCEPT !.should_exit = TRUE], rest)
          [] key.type = "Escape" ->
                IF rest = <<>> THEN Waiting(t)
                ELSE IF Head(rest).char = "["
                THEN HandleArrowKeys(t, Tail(rest))
                ELSE HandleKeyPress(t, rest)
          [] key.type = "Delete" -> Handled(HandleDelete(t), rest)
          [] OTHER -> Handled(t, rest)

RECURSIVE Overflow(_, _, _)
\* The rows from row on, after the characters beyond cols of each have been
\* moved to the front of the next and those of the last row dropped.
Overflow(rows, row, cols) ==
    IF row = Len(rows)
    THEN [rows EXCEPT ![row] = SubSeq(@, 1, IF Len(@) > cols THEN cols ELSE Len(@))]
    ELSE IF Len(rows[row]) > cols
    THEN Overflow([rows EXCEPT ![row] = SubSeq(@, 1, cols),
                               ![row + 1] = SubSeq(rows[row], cols + 1, Len(rows[row])) \o @],
                  row + 1, cols)
    ELSE Overflow(rows, row + 1, cols)

HandleOverflow(t) == [t EXCEPT !.buffer = Overflow(@, 1, t.dimensions.cols)]

\* refresh(): handle_overflow, then every row and the cursor are written.
Refresh(t) == HandleOverflow(t)

\* One turn of the loop of run() that finds a key: handle_key_press reads
\* the keys it asks for, then refresh(); the loop ends when should_exit is
\* set.
TerminalKey ==
    /\ term.state = "running"
    /\ \E keys \in KeySeqs(MaxKeys) :
           LET h == HandleKeyPress(term, keys)
           IN  /\ ~h.waits
               /\ h.rest = <<>>
               /\ term' = IF h.t.state = "panicked" THEN h.t
                          ELSE IF h.t.should_exit
                          THEN [Refresh(h.t) EXCEPT !.state = "exited"]
                          ELSE Refresh(h.t)
    /\ UNCHANGED << ti, buffer, ret, typed >>
    /\ UNCHANGED parserVars
    /\ UNCHANGED engineVars

TerminalIdle == term = [state |-> "idle"]

FrontIdle == TermInterfaceIdle /\ TerminalIdle

(***************************************************************************)
(* Engine::new(root).execute() and handle_prog_result, with the spawned    *)
(* processes running beside them.                                          *)
(***************************************************************************)
ParserIdle ==
    /\ src = <<>>
    /\ input = <<>>
    /\ emitted = <<>>
    /\ tdone = TRUE
    /\ presult = None

Init ==
    /\ ParserIdle
    /\ FrontIdle
    /\ root \in Trees(MaxNodes) \cup Pipelines(MaxStages)
    /\ stack = << NodeFrame(root) >>
    /\ ctx = EngineCtxNew
    /\ procs = <<>>
    /\ fs \in [FileNames -> {Absent, Old, Denied}]
    /\ handles = <<>>
    /\ outcome = Executing
    /\ shell = [pc |-> "execute", child |-> 0, lines |-> 1]

Next ==
    \/ ExecuteNodeCommand
    \/ ExecuteNodeRedirect
    \/ ExecuteNodePipe
    \/ ExecuteSetPipe
    \/ ExecuteNodeTodo
    \/ ExecuteReturn
    \/ HandleProgResult
    \/ HandleProgResultWait
    \/ DropProg
    \/ \E pid \in Pids, stream \in Streams : Drain(pid, stream)
    \/ \E pid \in Pids : ProcWrite(pid)
    \/ \E pid \in Pids : ProcRead(pid)
    \/ \E pid \in Pids : ProcExit(pid)

Spec == Init /\ [][Next]_vars

(***************************************************************************)
(* The same run under the scheduling of the operating system: the thread   *)
(* of the shell and each of its drain threads run when they can, and so    *)
(* does every process: one that can write its next chunk writes it (or     *)
(* exits), one that has written everything exits.                          *)
(***************************************************************************)
ShellStep ==
    \/ ExecuteNodeCommand
    \/ ExecuteNodeRedirect
    \/ ExecuteNodePipe
    \/ ExecuteSetPipe
    \/ ExecuteNodeTodo
    \/ ExecuteReturn
    \/ HandleProgResult
    \/ HandleProgResultWait
    \/ DropProg

Scheduling ==
    /\ WF_vars(ShellStep)
    /\ \A pid \in Pids, stream \in Streams : WF_vars(Drain(pid, stream))
    /\ \A pid \in Pids : WF_vars(ProcWrite(pid))
    /\ \A pid \in Pids : WF_vars(ProcExit(pid) /\ AllWritten(procs[pid]))

SpecDrain == Init /\ [][Next]_vars /\ Scheduling

(***************************************************************************)
(* Rsh::run: the loop that reads a line, parses it, executes the tree and  *)
(* handles the result.                                                     *)
(***************************************************************************)
Exit == << "e", "x", "i", "t" >>

\* The lines typed at the prompt.
ReplLines ==
    { << "a", " ", "1" >>, << "a", " ", "2" >>, << "x" >>, << "|" >>,
      << "a", ">", "f", "|" >>, << "a", "<", "f" >>, << "a", "&" >>,
      << "a", " ", "1", "|", "a" >>, << "a", ">", "f", "|", "a" >>,
      << "a", "|", "a", ">", "f" >>, Exit }

\* Parser::new(&line).parse()? failed: run returns the error
RunReturnsParseError(line, parsed) ==
    /\ src' = line
    /\ presult' = Some(parsed)
    /\ shell' = [shell EXCEPT !.pc = "run_err", !.lines = @ + 1]
    /\ UNCHANGED << root, stack, ctx, procs, fs, handles, outcome >>

\* Engine::new(root) and the call of engine.execute()
RunExecutes(line, parsed) ==
    /\ src' = line
    /\ presult' = Some(parsed)
    /\ root' = parsed.val
    /\ stack' = << NodeFrame(parsed.val) >>
    /\ ctx' = EngineCtxNew
    /\ outcome' = Executing
    /\ shell' = [shell EXCEPT !.pc = "execute", !.lines = @ + 1]
    /\ UNCHANGED << procs, fs, handles >>

\* The body of the loop with .unwrap_or(Command{line, []}) in the place of
\* the ? after parse(): a rejected line is run as the name of a program.
ReadlineRunningRejectedLines ==
    /\ shell.pc \in {"readline", "dropped"}
    /\ shell.lines < MaxLines
    /\ \/ /\ shell' = [shell EXCEPT !.pc = "run_ok"]
          /\ UNCHANGED << src, presult, root, stack, ctx, procs, fs, handles, outcome >>
       \/ \E line \in ReplLines :
             IF line = Exit
             THEN /\ src' = line
                  /\ shell' = [shell EXCEPT !.pc = "run_ok", !.lines = @ + 1]
                  /\ UNCHANGED << presult, root, stack, ctx, procs, fs, handles, outcome >>
             ELSE IF Parse(line).ok
             THEN RunExecutes(line, Parse(line))
             ELSE /\ src' = line
                  /\ presult' = Some(Parse(line))
                  /\ root' = Command(line, <<>>)
                  /\ stack' = << NodeFrame(Command(line, <<>>)) >>
                  /\ ctx' = EngineCtxNew
                  /\ outcome' = Executing
                  /\ shell' = [shell EXCEPT !.pc = "execute", !.lines = @ + 1]
                  /\ UNCHANGED << procs, fs, handles >>
    /\ UNCHANGED << input, emitted, tdone >>
    /\ UNCHANGED frontVars

\* The body of the loop with one Parser kept from line to line: a later
\* line is parsed from what the parser of the line before has left.
ReadlineReusingParser ==
    /\ shell.pc \in {"readline", "dropped"}
    /\ shell.lines < MaxLines
    /\ \/ /\ shell' = [shell EXCEPT !.pc = "run_ok"]
          /\ UNCHANGED << src, presult, root, stack, ctx, procs, fs, handles, outcome >>
       \/ \E line \in ReplLines :
             LET parsed == IF presult.some THEN Parse(presult.val.rest) ELSE Parse(line)
             IN  IF line = Exit
                 THEN /\ src' = line
                      /\ shell' = [shell EXCEPT !.pc = "run_ok", !.lines = @ + 1]
                      /\ UNCHANGED << presult, root, stack, ctx, procs, fs, handles, outcome >>
                 ELSE IF parsed.ok
                 THEN RunExecutes(line, parsed)
                 ELSE RunReturnsParseError(line, parsed)
    /\ UNCHANGED << input, emitted, tdone >>
    /\ UNCHANGED frontVars

\* rl.readline(..) and the arm of its result, up to the call of execute:
\* a failed readline and the line exit end the loop, a rejected line ends
\* run with the error, any other line is executed
Readline ==
    /\ shell.pc \in {"readline", "dropped"}
    /\ shell.lines < MaxLines
    /\ \/ /\ shell' = [shell EXCEPT !.pc = "run_ok"]
          /\ UNCHANGED << src, presult, root, stack, ctx, procs, fs, handles, outcome >>
       \/ \E line \in ReplLines :
             IF line = Exit
             THEN /\ src' = line
                  /\ shell' = [shell EXCEPT !.pc = "run_ok", !.lines = @ + 1]
                  /\ UNCHANGED << presult, root, stack, ctx, procs, fs, handles, outcome >>
             ELSE \E parsed \in { Parse(line) } :
                      IF parsed.ok
                      THEN RunExecutes(line, parsed)
                      ELSE RunReturnsParseError(line, parsed)
    /\ UNCHANGED << input, emitted, tdone >>
    /\ UNCHANGED frontVars

InitRepl ==
    /\ ParserIdle
    /\ FrontIdle
    /\ root = Command(<<"a">>, <<>>)
    /\ stack = <<>>
    /\ ctx = EngineCtxNew
    /\ procs = <<>>
    /\ fs \in [FileNames -> {Absent, Old}]
    /\ handles = <<>>
    /\ outcome = [state |-> "idle", msg |-> "", err |-> ""]
    /\ shell = [pc |-> "readline", child |-> 0, lines |-> 0]

NextRepl ==
    \/ Readline
    \/ Next

SpecRepl == InitRepl /\ [][NextRepl]_vars

(***************************************************************************)
(* Tokenizer::new(src) drained by next_token, and Parser::new(src).parse() *)
(***************************************************************************)
EngineIdle ==
    /\ root = Command(<<"a">>, <<>>)
    /\ stack = <<>>
    /\ ctx = EngineCtxNew
    /\ procs = <<>>
    /\ fs = [f \in FileNames |-> Absent]
    /\ handles = <<>>
    /\ outcome = [state |-> "idle", msg |-> "", err |-> ""]
    /\ shell = [pc |-> "idle", child |-> 0, lines |-> 0]

InitParser ==
    /\ src \in Lines(MaxLen)
    /\ input = src
    /\ emitted = <<>>
    /\ tdone = FALSE
    /\ presult = None
    /\ EngineIdle
    /\ FrontIdle

\* One call of next_token by a caller that stops at the first None
TokenizerNext ==
    /\ ~tdone
    /\ LET r == NextToken(input)
       IN  /\ input' = r.rest
           /\ emitted' = IF r.tok.some THEN Append(emitted, r.tok.val) ELSE emitted
           /\ tdone' = ~r.tok.some
    /\ UNCHANGED << src, presult >>
    /\ UNCHANGED engineVars
    /\ UNCHANGED frontVars

\* Parser::new(src).parse()
ParserParse ==
    /\ ~presult.some
    /\ presult' = Some(Parse(src))
    /\ UNCHANGED << src, input, emitted, tdone >>
    /\ UNCHANGED engineVars
    /\ UNCHANGED frontVars

NextParser ==
    \/ TokenizerNext
    \/ ParserParse

SpecParser == InitParser /\ [][NextParser]_vars

(***************************************************************************)
(* Parser::new(src).parse() alone, on longer lines of the grammar's        *)
(* characters.                                                             *)
(***************************************************************************)
InitGrammar ==
    /\ src \in GrammarLines(MaxLine)
    /\ input = src
    /\ emitted = <<>>
    /\ tdone = TRUE
    /\ presult = None
    /\ EngineIdle
    /\ FrontIdle

SpecGrammar == InitGrammar /\ [][ParserParse]_vars

(***************************************************************************)
(* A TermInterface over a reader that holds up to MaxInput characters,     *)
(* called until the reader is at its end.                                  *)
(***************************************************************************)
InitTermInterface ==
    /\ ParserIdle
    /\ EngineIdle
    /\ TerminalIdle
    /\ ti \in { TermInterfaceNew(reader, "$") : reader \in InputStreams(MaxInput) }
    /\ buffer = <<>>
    /\ ret = None
    /\ typed = <<>>

SpecTermInterface == InitTermInterface /\ [][ReadInput]_vars

(***************************************************************************)
(* A Terminal of up to MaxRows rows and MaxCols columns and the keys typed *)
(* into it.                                                                *)
(***************************************************************************)
InitTerminal ==
    /\ ParserIdle
    /\ EngineIdle
    /\ TermInterfaceIdle
    /\ term \in { TerminalNew([rows |-> r, cols |-> c]) :
                     r \in 1 .. MaxRows, c \in 1 .. MaxCols }

SpecTerminal == InitTerminal /\ [][TerminalKey]_vars

(***************************************************************************)
(* Properties of the tokenizer and the parser.                             *)
(***************************************************************************)
RECURSIVE Concat(_)
\* The concatenation of the literal text of the tokens of toks.
Concat(toks) ==
    IF toks = <<>> THEN <<>> ELSE TokenToString(Head(toks)) \o Concat(Tail(toks))

\* C1: once next_token has returned None, the literal text of the tokens it
\* returned before, concatenated in order, is the input line.
C1_TokenizerRoundTrip == tdone => Concat(emitted) = src

\* A drained line of three tokens with a multi-byte word between two operators.
C1_Witness ==
    /\ tdone
    /\ Len(emitted) = 3
    /\ emitted[1].kind # "Text"
    /\ emitted[2] = Text(EAcute)
    /\ emitted[3].kind # "Text"

RECURSIVE Tokens(_)
\* Every token of a line, as next_token returns them.
Tokens(line) ==
    LET r == NextToken(line)
    IN  IF r.tok.some THEN << r.tok.val >> \o Tokens(r.rest) ELSE <<>>

IsQuote(t) == t.kind \in {"SingleQuote", "DoubleQuote"}

\* The first quote token of the line follows only words and spaces, so that
\* the parser meets it as the opening quote of an argument, and no token of
\* its kind follows it.
OpensUnclosedQuote(line) ==
    LET toks == Tokens(line)
    IN  \E i \in DOMAIN toks :
            /\ IsQuote(toks[i])
            /\ \A j \in 1 .. (i - 1) : toks[j].kind \in {"Text", "Space"}
            /\ \A j \in (i + 1) .. Len(toks) : toks[j] # toks[i]

\* C2: a line whose opening quote is never closed is rejected with
\* UnexpectedEOF.
C2_UnclosedQuoteIsUnexpectedEOF ==
    (presult.some /\ OpensUnclosedQuote(src))
        => (~presult.val.ok /\ presult.val.err = UnexpectedEOF)

(***************************************************************************)
(* Properties of the engine and of the drain.                              *)
(***************************************************************************)
RECURSIVE CommandNodes(_)
\* The Command nodes of a tree, left to right, depth first.
CommandNodes(node) ==
    CASE node.type = "Command" -> << node >>
      [] node.type = "Pipe" -> CommandNodes(node.left) \o CommandNodes(node.right)
      [] OTHER -> CommandNodes(node.command)

\* The traversal is over: execute is about to return, or has panicked.
TraversalOver == stack = <<>> /\ outcome.state \in {"executing", "panicked"}

\* The streams a process was spawned with.
Wiring(proc) ==
    [name |-> proc.name, args |-> proc.args,
     stdin |-> proc.stdin, stdout |-> proc.stdout, stderr |-> proc.stderr]

Wirings(ps) == [i \in DOMAIN ps |-> Wiring(ps[i])]

\* C3: the context execute returns holds one child for every Command node of
\* the tree, in the order of the Command nodes.
C3_OneChildPerCommand ==
    shell.pc = "handle_prog_result"
        => LET commands == CommandNodes(root)
           IN  /\ Len(ctx.children) = Len(commands)
               /\ \A i \in DOMAIN commands :
                      procs[ctx.children[i].pid].name = commands[i].name

\* C4: with Background{command} as the root, command being a Command node
\* of a program that exists, the traversal ends as that of the foreground
\* command ends: in the state execute_cmd_std leaves behind on a fresh context.
C4_BackgroundRunsAsForeground ==
    (/\ TraversalOver
     /\ root.type = "Background"
     /\ root.command.type = "Command"
     /\ SpawnOk(root.command.name))
        => LET fresh == [ctx |-> EngineCtxNew, procs |-> <<>>, fs |-> fs,
                         handles |-> <<>>, outcome |-> Executing]
               fg == ExecuteCmdStd(fresh, root.command.name, root.command.args)
           IN  /\ outcome = fg.outcome
               /\ ctx = fg.ctx
               /\ Wirings(procs) = Wirings(fg.procs)

\* The run was ended by a spawn or an open that failed.
EndedByOsError ==
    /\ outcome.state = "panicked"
    /\ outcome.msg \in {"failed to execute process", "failed to open file",
                        "failed to create file"}

\* C5: once the context of a run is discarded (dropped by Rsh::run after
\* handle_prog_result, or dropped on the way out of execute when a spawn or
\* an open has failed), every process the run spawned has been waited on.
C5_AllChildrenReaped ==
    (shell.pc = "dropped" \/ EndedByOsError)
        => \A pid \in DOMAIN procs : procs[pid].state = "reaped"

\* C6: a failed spawn ends execute with a failure value handed to the caller
\* (the state "failed"), which carries the error of the operating system.
C6_SpawnErrorIsReturned ==
    (stack = <<>> /\ outcome.msg = "failed to execute process")
        => (outcome.state = "failed" /\ outcome.err = "NotFound")

\* The step executes the Redirect node at the head of the traversal.
RedirectStep ==
    /\ AtNode("Redirect")
    /\ GetName(Head(stack).node.command).some
    /\ stack' # stack

\* C7: the step that executes a Redirect node of mode Read whose file is not
\* there spawns nothing and ends the run with a not-found error; and a step
\* that ends the run because a redirect's file cannot be opened spawns nothing.
C7_OpenFailureSpawnsNothing ==
    [][ RedirectStep =>
           LET node == Head(stack).node
           IN  /\ (node.mode = "Read" /\ ~fs[node.file].exists)
                      => /\ outcome' = Panicked("failed to open file", "NotFound")
                         /\ Len(procs') = Len(procs)
               /\ (outcome'.msg \in {"failed to open file", "failed to create file"})
                      => Len(procs') = Len(procs) ]_vars

\* A Redirect of mode Read over a program that exists, its file missing:
\* the run has ended on the open and nothing was spawned.
C7_Witness ==
    /\ root.type = "Redirect"
    /\ root.mode = "Read"
    /\ root.command = Command(<<"a">>, << <<"1">> >>)
    /\ ~fs[root.file].exists
    /\ outcome = Panicked("failed to open file", "NotFound")
    /\ procs = <<>>

\* The stream of a process that a redirect of the given mode replaces.
StreamFor(proc, mode) == IF mode = "Read" THEN proc.stdin ELSE proc.stdout

Direction(mode) == IF mode = "Read" THEN "in" ELSE "out"

RECURSIVE RedirectChain(_)
\* The Redirect nodes nested directly in one another from node downwards.
RedirectChain(node) ==
    IF node.type = "Redirect" THEN { node } \cup RedirectChain(node.command) ELSE {}

RECURSIVE Stages(_)
\* The stages of a tree: its subtrees that are not below a Redirect or a
\* Background node and are not Pipe nodes.
Stages(node) ==
    IF node.type = "Pipe" THEN Stages(node.left) \cup Stages(node.right) ELSE { node }

\* C8: when execute returns, every Redirect node of a stage made of Redirect
\* nodes around a Command has its file as the stream of its direction of the
\* stage's process, nested Redirect nodes included (where no two of them
\* claim the same stream).
C8_EveryRedirectApplied ==
    outcome.state = "returned"
        => \A stage \in Stages(root) :
               LET chain == RedirectChain(stage)
               IN  (/\ \A r \in chain : r.command.type \in {"Redirect", "Command"}
                    /\ \A r1, r2 \in chain :
                           Direction(r1.mode) = Direction(r2.mode) => r1 = r2)
                       => \E pid \in DOMAIN procs :
                              /\ Some(procs[pid].name) = GetName(stage)
                              /\ Some(procs[pid].args) = GetArgs(stage)
                              /\ \A r \in chain :
                                     StreamFor(procs[pid], r.mode) = FileStream(r.file, r.mode)

\* C9: with Redirect{command, file, Append} as the root, command a Command
\* node of a program that exists and the file not protected, the traversal
\* ends with the file in place and the command running with its stdout on it.
C9_AppendCreatesTheFile ==
    (/\ TraversalOver
     /\ root.type = "Redirect"
     /\ root.mode = "Append"
     /\ root.command.type = "Command"
     /\ SpawnOk(root.command.name)
     /\ ~fs[root.file].denied)
        => /\ outcome.state = "executing"
           /\ fs[root.file].exists
           /\ Len(procs) = 1
           /\ procs[1].stdout = FileStream(root.file, "Append")

\* C10: the step in which a file is opened under mode Write leaves the file
\* in place and empty: it is created or truncated before the process spawned
\* in that step for the command has run at all.
C10_WriteCreatesOrTruncates ==
    [][ (Len(handles') > Len(handles) /\ handles'[Len(handles')].mode = "Write")
           => LET file == handles'[Len(handles')].file
              IN  /\ fs'[file] = [exists |-> TRUE, denied |-> FALSE, data |-> <<>>]
                  /\ \A pid \in DOMAIN procs' :
                         procs'[pid].stdout = FileStream(file, "Write")
                             => (pid \in DOMAIN procs \/ procs'[pid].written = 0) ]_vars

\* A file that held data when it was opened under mode Write now holds only
\* what the process spawned on it has written.
C10_Witness ==
    \E i \in DOMAIN handles, pid \in DOMAIN procs :
        /\ handles[i].mode = "Write"
        /\ handles[i].existed
        /\ procs[pid].stdout = FileStream(handles[i].file, "Write")
        /\ fs[handles[i].file].data = << pid >>

(***************************************************************************)
(* Properties of the syntax tree Parser::parse builds.                     *)
(***************************************************************************)
IsOperator(t) == t.kind \in {"Pipe", "RedirectOutput", "RedirectInput", "Background"}

IsWordOrSpace(t) == t.kind \in {"Text", "Space"}

\* The tokens of toks from the i-th to the j-th.
Part(toks, i, j) == SubSeq(toks, i, j)

IsText(t) == t.kind = "Text"

RECURSIVE Words(_)
\* The words of a token list: the text of its Text tokens, in order.
Words(toks) ==
    IF toks = <<>> THEN <<>>
    ELSE IF IsText(Head(toks)) THEN << Head(toks).text >> \o Words(Tail(toks))
    ELSE Words(Tail(toks))

\* Words and spaces only, one word at least.
IsWordList(toks) ==
    /\ \A i \in DOMAIN toks : IsWordOrSpace(toks[i])
    /\ Words(toks) # <<>>

\* The Command node of a list of words: the first is the name.
CommandOfWords(words) ==
    [type |-> "Command", name |-> Head(words), args |-> Tail(words)]

\* The least index from `from` on whose token is not a word or a space;
\* Len(toks) + 1 when there is none.
RECURSIVE FirstOther(_, _)
FirstOther(toks, from) ==
    IF from > Len(toks) \/ ~IsWordOrSpace(toks[from]) THEN from
    ELSE FirstOther(toks, from + 1)

\* The least index from `from` on whose token is not a space.
RECURSIVE FirstNonSpace(_, _)
FirstNonSpace(toks, from) ==
    IF from > Len(toks) \/ toks[from].kind # "Space" THEN from
    ELSE FirstNonSpace(toks, from + 1)

RECURSIVE SplitAtPipes(_)
\* The token lists between the Pipe tokens of toks.
SplitAtPipes(toks) ==
    LET i == CHOOSE k \in 1 .. (Len(toks) + 1) :
                 /\ k = Len(toks) + 1 \/ toks[k].kind = "Pipe"
                 /\ \A j \in 1 .. (k - 1) : toks[j].kind # "Pipe"
    IN  IF i > Len(toks) THEN << toks >>
        ELSE << Part(toks, 1, i - 1) >> \o SplitAtPipes(Part(toks, i + 1, Len(toks)))

RECURSIVE RightChain(_)
\* Pipe{n1, Pipe{n2, ... Pipe{n(k-1), nk}}}
RightChain(nodes) ==
    IF Len(nodes) = 1 THEN nodes[1]
    ELSE [type |-> "Pipe", left |-> Head(nodes), right |-> RightChain(Tail(nodes))]

RECURSIVE HasPipe(_)
HasPipe(node) ==
    CASE node.type = "Command" -> FALSE
      [] node.type = "Pipe" -> TRUE
      [] OTHER -> HasPipe(node.command)

RECURSIVE PipesLeanRight(_)
\* The left child of every Pipe node of the tree contains no Pipe node.
PipesLeanRight(node) ==
    CASE node.type = "Command" -> TRUE
      [] node.type = "Pipe" ->
            ~HasPipe(node.left) /\ PipesLeanRight(node.left) /\ PipesLeanRight(node.right)
      [] OTHER -> PipesLeanRight(node.command)

\* C11: a line of two or more simple commands separated by '|', with or
\* without spaces around it, parses to the right-leaning chain of their
\* Command nodes; and in every tree the parser returns, the left child of a
\* Pipe node contains no Pipe node.
C11_PipesChainToTheRight ==
    presult.some =>
        LET toks == Tokens(src)
            stages == SplitAtPipes(toks)
        IN  /\ presult.val.ok => PipesLeanRight(presult.val.val)
            /\ (/\ Len(stages) >= 2
                 /\ \A k \in DOMAIN stages : IsWordList(stages[k]))
                    => /\ presult.val.ok
                       /\ presult.val.val =
                              RightChain([k \in DOMAIN stages |-> CommandOfWords(Words(stages[k]))])

\* The line a|a|a has been parsed to Pipe{a, Pipe{a, a}}.
C11_Witness ==
    /\ src = << "a", "|", "a", "|", "a" >>
    /\ presult.some
    /\ presult.val.ok
    /\ presult.val.val.type = "Pipe"
    /\ presult.val.val.left.type = "Command"
    /\ presult.val.val.right.type = "Pipe"

RECURSIVE InBackground(_, _)
\* node wrapped in n Background nodes
InBackground(node, n) ==
    IF n = 0 THEN node
    ELSE [type |-> "Background", command |-> InBackground(node, n - 1)]

RECURSIVE NoPipeInBackground(_)
\* No Background node of the tree has a Pipe node below it.
NoPipeInBackground(node) ==
    CASE node.type = "Command" -> TRUE
      [] node.type = "Pipe" -> NoPipeInBackground(node.left) /\ NoPipeInBackground(node.right)
      [] node.type = "Background" -> ~HasPipe(node.command) /\ NoPipeInBackground(node.command)
      [] OTHER -> NoPipeInBackground(node.command)

\* The index of the last token of a stage that is a word or a space.
LastWordIndex(stage) == FirstOther(stage, 1) - 1

\* A simple command followed by '&' tokens only.
IsBackgroundStage(stage) ==
    /\ IsWordList(Part(stage, 1, LastWordIndex(stage)))
    /\ \A i \in (LastWordIndex(stage) + 1) .. Len(stage) : stage[i].kind = "Background"

BackgroundStageNode(stage) ==
    InBackground(CommandOfWords(Words(Part(stage, 1, LastWordIndex(stage)))),
                 Len(stage) - LastWordIndex(stage))

\* C12: in a line of simple commands separated by '|', each followed by any
\* number of '&', every '&' wraps the stage it follows and nothing else:
\* the line parses to the right-leaning chain of the stages, each stage's
\* Command inside one Background node for each of its '&'.  In every tree
\* the parser returns, no Background node has a Pipe node below it.
C12_BackgroundWrapsItsStage ==
    presult.some =>
        LET stages == SplitAtPipes(Tokens(src))
        IN  /\ presult.val.ok => NoPipeInBackground(presult.val.val)
            /\ (\A k \in DOMAIN stages : IsBackgroundStage(stages[k]))
                    => /\ presult.val.ok
                       /\ presult.val.val =
                              RightChain([k \in DOMAIN stages |-> BackgroundStageNode(stages[k])])

\* The line a&|a has been parsed to Pipe{Background{a}, a}: the '&' in
\* mid-chain wraps the stage before it, which is the left child of the Pipe.
C12_Witness ==
    /\ src = << "a", "&", "|", "a" >>
    /\ presult.some
    /\ presult.val.ok
    /\ presult.val.val.type = "Pipe"
    /\ presult.val.val.left.type = "Background"
    /\ presult.val.val.left.command.type = "Command"

\* The mode of the Redirect node a redirect token stands for.
ModeOf(t) == IF t.kind = "RedirectOutput" THEN "Write" ELSE "Read"

\* The line is a simple command, then '>' or '<' at index op, then, after
\* any spaces, a word at index file; the line ends there or goes on with a
\* space.
IsRedirectLine(toks, op, file) ==
    /\ op = FirstOther(toks, 1)
    /\ op <= Len(toks)
    /\ IsWordList(Part(toks, 1, op - 1))
    /\ toks[op].kind \in {"RedirectOutput", "RedirectInput"}
    /\ file = FirstNonSpace(toks, op + 1)
    /\ file <= Len(toks)
    /\ IsText(toks[file])
    /\ file < Len(toks) => toks[file + 1].kind = "Space"

\* C13: a simple command followed by '>' (by '<') and a word, with or
\* without spaces around the operator, parses to the Redirect node of mode
\* Write (of mode Read) over the command, and the one word is its file.
C13_RedirectTakesOneFile ==
    presult.some =>
        LET toks == Tokens(src)
        IN  \A op, file \in DOMAIN toks :
                IsRedirectLine(toks, op, file)
                    => /\ presult.val.ok
                       /\ presult.val.val =
                              [type |-> "Redirect",
                               command |-> CommandOfWords(Words(Part(toks, 1, op - 1))),
                               file |-> toks[file].text,
                               mode |-> ModeOf(toks[op])]

\* The line "a<  a" (two spaces before the file) has been parsed to a
\* Redirect of mode Read.
C13_Witness ==
    /\ src = << "a", "<", " ", " ", "a" >>
    /\ presult.some
    /\ presult.val.ok
    /\ presult.val.val.type = "Redirect"
    /\ presult.val.val.mode = "Read"
    /\ presult.val.val.file = << "a" >>

\* The line is words and spaces, then a quote token at index open, then
\* tokens none of which is that quote token, then the same quote token at
\* index close, then words and spaces to the end.
IsQuotedLine(toks, open, close) ==
    /\ open < close
    /\ IsQuote(toks[open])
    /\ toks[close] = toks[open]
    /\ \A i \in 1 .. (open - 1) : IsWordOrSpace(toks[i])
    /\ \A i \in (open + 1) .. (close - 1) : toks[i] # toks[open]
    /\ \A i \in (close + 1) .. Len(toks) : IsWordOrSpace(toks[i])

\* C14: what stands between a quote token and the next quote token of its
\* kind is one argument, the concatenation of the literal text of the
\* tokens in between (operators, spaces and the other quote included),
\* without the two quotes: the line parses to the Command of the words
\* before, that argument, and the words after.
C14_QuotedTextIsOneArgument ==
    presult.some =>
        LET toks == Tokens(src)
        IN  \A open, close \in DOMAIN toks :
                IsQuotedLine(toks, open, close)
                    => /\ presult.val.ok
                       /\ presult.val.val =
                              CommandOfWords(Words(Part(toks, 1, open - 1))
                                             \o << Concat(Part(toks, open + 1, close - 1)) >>
                                             \o Words(Part(toks, close + 1, Len(toks))))

\* The line a'|"' has been parsed to the command a with the one
\* argument |" .
C14_Witness ==
    /\ src = << "a", "'", "|", DQuote, "'" >>
    /\ presult.some
    /\ presult.val.ok
    /\ presult.val.val = [type |-> "Command", name |-> << "a" >>,
                          args |-> << << "|", DQuote >> >>]

\* C15: a line of words and spaces parses to the Command whose name is the
\* first word and whose arguments are the other words, in their order.
C15_WordsBecomeOneCommand ==
    (presult.some /\ IsWordList(Tokens(src)))
        => /\ presult.val.ok
           /\ presult.val.val = CommandOfWords(Words(Tokens(src)))

\* The line "a b a" has been parsed: the name a, the arguments b and a.
C15_Witness ==
    /\ src = << "a", " ", "b", " ", "a" >>
    /\ presult.some
    /\ presult.val.ok
    /\ presult.val.val = [type |-> "Command", name |-> << "a" >>,
                          args |-> << << "b" >>, << "a" >> >>]

RECURSIVE Resolve(_)
\* s with its escapes resolved: a backslash is dropped and the byte after
\* it is kept as it is.
Resolve(s) ==
    IF s = <<>> THEN <<>>
    ELSE IF Head(s) = Backslash /\ Len(s) >= 2
    THEN << s[2] >> \o Resolve(SubSeq(s, 3, Len(s)))
    ELSE << Head(s) >> \o Resolve(Tail(s))

RECURSIVE IsEscaped(_, _)
\* Every character of s that is in the set stops is escaped by a backslash,
\* and no backslash is the last character of s.
IsEscaped(s, stops) ==
    IF s = <<>> THEN TRUE
    ELSE IF Head(s) = Backslash
    THEN Len(s) >= 2 /\ IsEscaped(SubSeq(s, 3, Len(s)), stops)
    ELSE << Head(s) >> \notin stops /\ IsEscaped(Tail(s), stops)

\* The characters that end a word when they are not escaped.
WordStops ==
    { <<"|">>, <<">">>, <<"<">>, <<"&">>, <<DQuote>>, <<"'">>, <<" ">>, <<Tab>> }

\* C16: the arguments of the tree have their escapes resolved.  A line that
\* is one word, every operator, quote and blank in it escaped by a
\* backslash, parses to the command named by the word without the
\* backslashes; and a line that is one quoted argument, every quote of that
\* kind inside it escaped, parses to the command named by what is between
\* the quotes, the escaped quotes included.
C16_EscapesAreResolved ==
    presult.some =>
        /\ (src # <<>> /\ IsEscaped(src, WordStops))
               => /\ presult.val.ok
                  /\ presult.val.val = Command(Resolve(src), <<>>)
        /\ \A q \in { <<"'">>, <<DQuote>> } :
               (/\ Len(src) >= 3
                /\ << src[1] >> = q
                /\ << src[Len(src)] >> = q
                /\ IsEscaped(SubSeq(src, 2, Len(src) - 1), { q }))
                   => /\ presult.val.ok
                      /\ presult.val.val.type = "Command"
                      /\ presult.val.val.name = Resolve(SubSeq(src, 2, Len(src) - 1))

\* The indices of the token list at which the grammar asks for an
\* argument: the start of the line (the name of the command) and what comes
\* after a '|', '>' or '<' that follows a simple command (the right-hand
\* side of the pipe, the file of the redirect).
ArgumentRequiredAt(toks) ==
    { 1 } \cup { op + 1 : op \in { i \in DOMAIN toks :
                                     /\ i = FirstOther(toks, 1)
                                     /\ IsWordList(Part(toks, 1, i - 1))
                                     /\ toks[i].kind \in {"Pipe", "RedirectOutput",
                                                           "RedirectInput"} } }

\* C20: where an argument is required and, after the spaces, the line has
\* ended, the parse fails with UnexpectedEOF; where the token after the
\* spaces is an operator, it fails with UnexpectedToken and the text of
\* that operator.
C20_MissingArgumentIsRejected ==
    presult.some =>
        LET toks == Tokens(src)
        IN  \A from \in ArgumentRequiredAt(toks) :
                LET next == FirstNonSpace(toks, from)
                IN  /\ next > Len(toks)
                       => (~presult.val.ok /\ presult.val.err = UnexpectedEOF)
                    /\ (next <= Len(toks) /\ IsOperator(toks[next]))
                       => /\ ~presult.val.ok
                          /\ presult.val.err = UnexpectedToken(TokenToString(toks[next]))

\* The line "a| &" has been rejected: the right-hand side of the pipe is
\* the operator &.
C20_Witness ==
    /\ src = << "a", "|", " ", "&" >>
    /\ presult.some
    /\ ~presult.val.ok
    /\ presult.val.err = [kind |-> "UnexpectedToken", text |-> << "&" >>]

(***************************************************************************)
(* Properties of handle_prog_result and of the loop of Rsh::run.           *)
(***************************************************************************)
\* While the shell is in c.wait(), each of the child's stdout and stderr
\* that is a pipe is with a drain thread.
DrainsStarted ==
    shell.pc = "wait"
        => /\ procs[shell.child].stdout.kind = "piped" => procs[shell.child].outend = "drain"
           /\ procs[shell.child].stderr.kind = "piped" => procs[shell.child].errend = "drain"

\* C17: the threads that drain the stdout and the stderr of the last child
\* are started before the shell waits for it, and, every process writing
\* what its program writes (more than a pipe holds) whenever the pipe takes
\* it and exiting after, handle_prog_result returns.
C17_DrainedChildIsWaitedFor ==
    /\ []DrainsStarted
    /\ (shell.pc = "handle_prog_result") ~> (shell.pc \in {"returned", "dropped"})

\* handle_prog_result has returned from the wait for a child that has
\* written more chunks to its piped stderr than the pipe holds.
C17_Witness ==
    /\ shell.pc \in {"returned", "dropped"}
    /\ shell.child \in DOMAIN procs
    /\ procs[shell.child].state = "reaped"
    /\ procs[shell.child].stderr.kind = "piped"
    /\ procs[shell.child].errwritten > PipeCap

\* The line read last was rejected by the parser, or its run was ended by a
\* spawn or an open that failed.
LineFailed ==
    \/ presult.some /\ ~presult.val.ok
    \/ EndedByOsError

\* C18: neither a rejected line nor a failed spawn or redirect ends the loop
\* of Rsh::run: with such a line behind it, run is at the top of its loop
\* again, about to read the next line.
C18_FailedLineKeepsTheLoop ==
    LineFailed => shell.pc \in {"readline", "dropped"}

\* The step reads a line that the parser rejects.
RejectsLine ==
    /\ shell'.lines = shell.lines + 1
    /\ src' # Exit
    /\ ~Parse(src').ok

\* C19: the step in which a line is rejected leaves the engine and the
\* operating system as they were (no tree is handed to an engine, no file
\* is opened, created or truncated, no process is spawned), and what the
\* parser returned holds no tree.
C19_RejectedLineTouchesNothing ==
    [][ RejectsLine
           => /\ UNCHANGED << root, stack, ctx, procs, fs, handles, outcome >>
              /\ presult'.some
              /\ ~presult'.val.ok
              /\ "val" \notin DOMAIN presult'.val ]_vars

\* The line a>f| has been rejected: the file f of its redirect is not
\* there and nothing runs.
C19_Witness ==
    /\ src = << "a", ">", "f", "|" >>
    /\ presult.some
    /\ ~presult.val.ok
    /\ shell.pc = "run_err"
    /\ ~fs[<<"f">>].exists
    /\ procs = <<>>
    /\ handles = <<>>

(***************************************************************************)
(* Properties of the tokens and of the tokenizer's methods.                *)
(***************************************************************************)
\* The operator characters, the quotes and the space, as bytes.
Delimiters == { "|", ">", "<", "&", "'", DQuote, " " }

IsDelimiter(b) == b \in Delimiters

\* The places of the line that hold a delimiter, and the places of the
\* token list that hold a token other than Text.
DelimiterPlaces(line) == { k \in DOMAIN line : IsDelimiter(line[k]) }

NoTextPlaces(toks) == { i \in DOMAIN toks : toks[i].kind # "Text" }

\* C21: no Text token holds an operator character, a quote or a space, no
\* two Text tokens follow one another, and once the line is drained it has
\* given one token that is not Text for every such character in it.
C21_DelimitersAreTheirOwnTokens ==
    /\ \A i \in DOMAIN emitted :
           emitted[i].kind = "Text"
               => \A k \in DOMAIN emitted[i].text : ~IsDelimiter(emitted[i].text[k])
    /\ \A i \in 1 .. (Len(emitted) - 1) :
           ~(emitted[i].kind = "Text" /\ emitted[i + 1].kind = "Text")
    /\ tdone => Cardinality(NoTextPlaces(emitted)) = Cardinality(DelimiterPlaces(src))

\* The line a>a' has been drained to four tokens: the operator and the
\* quote stand alone between and after the words.
C21_Witness ==
    /\ tdone
    /\ src = << "a", ">", "a", "'" >>
    /\ emitted = << Text(<< "a" >>), Tok("RedirectOutput"), Text(<< "a" >>),
                    Tok("SingleQuote") >>

\* C22: no Text token holds a whitespace character, the tab included.
C22_WhitespaceEndsTheWord ==
    \A i \in DOMAIN emitted :
        emitted[i].kind = "Text"
            => \A k \in DOMAIN emitted[i].text : ~IsWhitespace(<< emitted[i].text[k] >>)

\* C23: at every point of the draining of a line, peek_next leaves the
\* input as it is, a second peek returns what the first returned, the
\* token peeked is the token next_token returns, and is_empty holds exactly
\* when next_token returns None.
C23_PeekDoesNotConsume ==
    /\ PeekNext(input).rest = input
    /\ PeekNext(PeekNext(input).rest) = PeekNext(input)
    /\ PeekNext(input).tok = NextToken(input).tok
    /\ IsEmpty(input) <=> ~NextToken(input).tok.some

\* A word has been taken from the line and what is left starts with an
\* operator, which a peek returns.
C23_Witness ==
    /\ Len(emitted) = 1
    /\ input # <<>>
    /\ Len(input) < Len(src)
    /\ PeekNext(input).tok = Some(Tok("Pipe"))

(***************************************************************************)
(* Properties of the wiring of the spawned processes.                      *)
(***************************************************************************)
RECURSIVE IsPipeline(_)
\* The tree is made of Pipe and Command nodes only.
IsPipeline(node) ==
    CASE node.type = "Command" -> TRUE
      [] node.type = "Pipe" -> IsPipeline(node.left) /\ IsPipeline(node.right)
      [] OTHER -> FALSE

\* C25: in the run of a tree made of Pipe and Command nodes only, of
\* whatever shape, over programs that exist, the processes are those of the
\* Command nodes from left to right, the first with a fresh pipe as its
\* stdin and every later one with the stdout of the process spawned just
\* before it; and when execute returns every Command node has its process
\* and the flag of the context is false.
C25_PipelineIsChained ==
    (/\ IsPipeline(root)
     /\ \A i \in DOMAIN CommandNodes(root) : SpawnOk(CommandNodes(root)[i].name))
        => LET commands == CommandNodes(root)
           IN  /\ Len(procs) <= Len(commands)
               /\ \A pid \in DOMAIN procs :
                      Wiring(procs[pid]) =
                          [name |-> commands[pid].name, args |-> commands[pid].args,
                           stdin |-> IF pid = 1 THEN Piped ELSE ChildStdout(pid - 1),
                           stdout |-> Piped, stderr |-> Piped]
               /\ shell.pc = "handle_prog_result"
                      => Len(procs) = Len(commands) /\ ~ctx.should_pipe

\* execute has returned from a pipeline of three stages whose first two
\* stages are the left side of the root.
C25_Witness ==
    /\ shell.pc = "handle_prog_result"
    /\ root.type = "Pipe"
    /\ root.left.type = "Pipe"
    /\ IsPipeline(root)
    /\ Len(procs) = 3
    /\ procs[3].stdin = ChildStdout(2)

\* The three wirings of a spawned process.
Standalone(proc) == proc.stdin = Piped /\ proc.stdout = Piped

PipeConnected(proc, pid) ==
    /\ \E prev \in 1 .. (pid - 1) : proc.stdin = ChildStdout(prev)
    /\ proc.stdout = Piped

Redirected(proc) ==
    \/ proc.stdin.kind = "file" /\ proc.stdout = Piped
    \/ proc.stdin = Piped /\ proc.stdout.kind = "file"

\* C28: every process was spawned with a fresh pipe as its stderr and with
\* exactly one of the three wirings: standalone, pipe-connected, redirected.
C28_OneOfThreeWirings ==
    \A pid \in DOMAIN procs :
        /\ procs[pid].stderr = Piped
        /\ Cardinality({ w \in {"standalone", "pipe", "redirect"} :
                            \/ w = "standalone" /\ Standalone(procs[pid])
                            \/ w = "pipe" /\ PipeConnected(procs[pid], pid)
                            \/ w = "redirect" /\ Redirected(procs[pid]) }) = 1

\* A standalone process and a pipe-connected one have been spawned for a
\* Pipe node, and the pipe-connected one writes to its stderr.
C28_Witness ==
    /\ root.type = "Pipe"
    /\ Len(procs) = 2
    /\ Standalone(procs[1])
    /\ PipeConnected(procs[2], 2)
    /\ procs[2].errwritten > 0

(***************************************************************************)
(* Properties of the trees of whole lines.                                 *)
(***************************************************************************)
RECURSIVE LeftmostStage(_)
\* The stage of a tree that is executed first.
LeftmostStage(node) ==
    IF node.type = "Pipe" THEN LeftmostStage(node.left) ELSE node

RECURSIVE RedirectsPipeConnectedStage(_)
\* Some Pipe node of the tree has a Redirect node as the stage that is
\* executed right after the flag of the context is raised.
RedirectsPipeConnectedStage(node) ==
    CASE node.type = "Command" -> FALSE
      [] node.type = "Pipe" ->
            \/ LeftmostStage(node.right).type = "Redirect"
            \/ RedirectsPipeConnectedStage(node.left)
            \/ RedirectsPipeConnectedStage(node.right)
      [] OTHER -> RedirectsPipeConnectedStage(node.command)

\* C27: in the tree of an accepted line no stage is both the right-hand,
\* pipe-connected stage of a Pipe node and wrapped by a Redirect node.
C27_NoRedirectOnPipeConnectedStage ==
    (presult.some /\ presult.val.ok) => ~RedirectsPipeConnectedStage(presult.val.val)

\* C30: when parse returns Ok, nothing of the line is left in the tokenizer.
C30_AcceptedLineIsConsumed ==
    (presult.some /\ presult.val.ok) => IsEmpty(presult.val.rest)

(***************************************************************************)
(* Properties of the lines run by the loop.                                *)
(***************************************************************************)
\* This step reads a line other than exit.
ReadsLine == shell'.lines = shell.lines + 1 /\ src' # Exit

C26_PipeFindsItsPredecessor ==
    /\ (AtNode("Command") /\ ctx.should_pipe)
           => /\ GetLastChild(ctx).some
              /\ GetLastChild(ctx).val.stdout
              /\ procs[GetLastChild(ctx).val.pid].outend = "child"
    /\ ~(outcome.state = "panicked" /\ outcome.msg = UnwrapNone)

\* C29: handle_prog_result takes the process spawned last, which is the
\* process of the last Command node of the tree from left to right, and
\* goes on to wait for it; with an empty context it returns at once and
\* leaves every process as it is.
C29_LastCommandIsHandled ==
    [][(shell.pc = "handle_prog_result" /\ shell'.pc # "handle_prog_result")
          => IF ctx.children = <<>>
             THEN shell'.pc = "returned" /\ procs' = procs
             ELSE LET commands == CommandNodes(root)
                      last == commands[Len(commands)]
                  IN  /\ shell'.pc = "wait"
                      /\ shell'.child = Len(procs)
                      /\ procs[shell'.child].name = last.name
                      /\ procs[shell'.child].args = last.args]_vars

\* The line a|a>f has been executed and the shell waits for its second
\* process, the one that writes to the file, while the first is still in
\* the context.
C29_Witness ==
    /\ src = << "a", "|", "a", ">", "f" >>
    /\ shell.pc = "wait"
    /\ shell.child = Len(procs)
    /\ procs[shell.child].stdout = FileStream(<< "f" >>, "Write")
    /\ Len(ctx.children) = 1
    /\ ctx.children[1].pid = shell.child - 1

(***************************************************************************)
(* Properties of the end of handle_prog_result.                            *)
(***************************************************************************)
\* C31: once handle_prog_result has returned from the wait for a child,
\* nothing the child wrote is still in the pipes its drain threads read:
\* every chunk has been copied to the streams of the shell.
C31_OutputIsCopiedBeforeReturn ==
    (shell.pc \in {"returned", "dropped"} /\ shell.child \in DOMAIN procs)
        => /\ procs[shell.child].outbuf = 0
           /\ procs[shell.child].errbuf = 0

(***************************************************************************)
(* Properties of the order of the open and the spawn of a redirect.        *)
(***************************************************************************)
\* C32: the step that executes a Redirect node opens the file before it
\* spawns the program: when the file cannot be opened the run ends with
\* the error of the open, whether the program is there or not, and under
\* mode Write, the file being writable and the program not there, the step
\* leaves the file there and empty, ends with the error of the spawn and
\* spawns nothing.
C32_FileIsOpenedBeforeTheSpawn ==
    [][RedirectStep =>
          LET node == Head(stack).node
              name == GetName(node.command).val
          IN  /\ (node.mode \in {"Read", "Append"} /\ ~fs[node.file].exists)
                     => outcome' = Panicked("failed to open file", "NotFound")
              /\ (node.mode = "Write" /\ ~fs[node.file].denied /\ ~SpawnOk(name))
                     => /\ fs'[node.file].exists
                        /\ fs'[node.file].data = <<>>
                        /\ outcome' = Panicked("failed to execute process", "NotFound")
                        /\ Len(procs') = Len(procs)]_vars

\* A Redirect of mode Write over a program that is not there has been
\* executed: the spawn has failed, and the file, which held data before,
\* has been truncated.
C32_Witness ==
    /\ root.type = "Redirect"
    /\ root.mode = "Write"
    /\ root.command.type = "Command"
    /\ ~SpawnOk(root.command.name)
    /\ outcome = Panicked("failed to execute process", "NotFound")
    /\ handles = << [file |-> root.file, mode |-> "Write", existed |-> TRUE] >>
    /\ fs[root.file].data = <<>>
    /\ procs = <<>>

(***************************************************************************)
(* Properties of the nodes a Redirect or a Background node wraps.          *)
(***************************************************************************)
RECURSIVE WrapsPipe(_)
\* Some Redirect or Background node of the tree has a Pipe node as its
\* command.
WrapsPipe(node) ==
    CASE node.type = "Command" -> FALSE
      [] node.type = "Pipe" -> WrapsPipe(node.left) \/ WrapsPipe(node.right)
      [] OTHER -> node.command.type = "Pipe" \/ WrapsPipe(node.command)

RECURSIVE RedirectsFindTheirCommand(_)
\* get_name and get_args give Some for the command of every Redirect node
\* of the tree.
RedirectsFindTheirCommand(node) ==
    CASE node.type = "Command" -> TRUE
      [] node.type = "Pipe" ->
            RedirectsFindTheirCommand(node.left) /\ RedirectsFindTheirCommand(node.right)
      [] node.type = "Redirect" ->
            /\ GetName(node.command).some
            /\ GetArgs(node.command).some
            /\ RedirectsFindTheirCommand(node.command)
      [] OTHER -> RedirectsFindTheirCommand(node.command)

\* C33: in the tree of an accepted line no Redirect or Background node
\* wraps a Pipe node, and the name and the arguments of the command of
\* every Redirect node are found.
C33_WrappersHoldNoPipe ==
    (presult.some /\ presult.val.ok)
        => /\ ~WrapsPipe(presult.val.val)
           /\ RedirectsFindTheirCommand(presult.val.val)

\* The line a|a>a has been parsed: the redirect is inside the right side of
\* the Pipe node, around its command.
C33_Witness ==
    /\ src = << "a", "|", "a", ">", "a" >>
    /\ presult.some
    /\ presult.val.ok
    /\ presult.val.val.type = "Pipe"
    /\ presult.val.val.right.type = "Redirect"
    /\ GetName(presult.val.val.right.command) = Some(<< "a" >>)

(***************************************************************************)
(* Properties of the progress of the tokenizer and of the parser's loops.  *)
(***************************************************************************)
Shorter(rest, inp) == Len(rest) < Len(inp)

\* next_token on an input that is not empty gives a token and takes at
\* least one character; this is also one turn of the loop of
\* parse_until_next, which ends when next_token gives None.
NextTokenConsumes(inp) ==
    inp # <<>> => NextToken(inp).tok.some /\ Shorter(NextToken(inp).rest, inp)

\* One turn of the loop of parse_simple_command that does not leave the
\* loop: an argument is parsed, or whitespace is skipped.
SimpleCommandTurnConsumes(inp) ==
    LET t == PeekNext(inp).tok
    IN  t.some =>
            CASE t.val.kind \in {"Text", "SingleQuote", "DoubleQuote"} ->
                    ParseArgument(inp).ok => Shorter(ParseArgument(inp).rest, inp)
              [] t.val.kind = "Space" -> Shorter(SkipWhitespace(inp), inp)
              [] OTHER -> TRUE

\* One turn of the loop of parse_command that does not leave the loop: the
\* operator is taken and, but for '&', what follows it is parsed.
CommandTurnConsumes(inp) ==
    LET t == PeekNext(inp).tok
        rest == NextToken(inp).rest
    IN  t.some =>
            CASE t.val.kind = "Pipe" ->
                    ParseCommand(rest).ok => Shorter(ParseCommand(rest).rest, inp)
              [] t.val.kind \in {"RedirectOutput", "RedirectInput"} ->
                    ParseArgument(rest).ok => Shorter(ParseArgument(rest).rest, inp)
              [] t.val.kind = "Background" -> Shorter(rest, inp)
              [] OTHER -> TRUE

\* C34: from every input the tokenizer of a line comes to, next_token takes
\* at least one character unless the input is empty, and a turn of the loop
\* of parse_until_next, of parse_simple_command and of parse_command that
\* does not leave the loop leaves an input shorter than it found; and what
\* is left of the line never grows.
C34_EveryTurnConsumes ==
    /\ NextTokenConsumes(input)
    /\ SimpleCommandTurnConsumes(input)
    /\ CommandTurnConsumes(input)
    /\ Len(input) <= Len(src)
    /\ tdone => input = <<>>

\* The line 'a ' (a quoted word with a space) has been drained to its four
\* tokens and parsed to the command of the name between the quotes.
C34_Witness ==
    /\ src = << "'", "a", " ", "'" >>
    /\ tdone
    /\ Len(emitted) = 4
    /\ presult.some
    /\ presult.val.ok
    /\ presult.val.val = Command(<< "a", " " >>, <<>>)

(***************************************************************************)
(* Properties of the modes of the Redirect nodes the parser builds.        *)
(***************************************************************************)
RECURSIVE RedirectModes(_)
\* The modes of the Redirect nodes of a tree.
RedirectModes(node) ==
    CASE node.type = "Command" -> {}
      [] node.type = "Pipe" -> RedirectModes(node.left) \cup RedirectModes(node.right)
      [] node.type = "Redirect" -> { node.mode } \cup RedirectModes(node.command)
      [] OTHER -> RedirectModes(node.command)

\* The line is a simple command and then two '>' one right after the other.
IsAppendLine(toks) ==
    LET op == FirstOther(toks, 1)
    IN  /\ op < Len(toks)
        /\ IsWordList(Part(toks, 1, op - 1))
        /\ toks[op].kind = "RedirectOutput"
        /\ toks[op + 1].kind = "RedirectOutput"

\* C35: every Redirect node of the tree of an accepted line has the mode
\* Read or Write, and a simple command followed by >> is rejected with
\* UnexpectedToken for the second '>'.
C35_NoLineParsesToAppend ==
    presult.some =>
        /\ presult.val.ok => RedirectModes(presult.val.val) \subseteq {"Read", "Write"}
        /\ IsAppendLine(Tokens(src))
               => (~presult.val.ok /\ presult.val.err = UnexpectedToken(<< ">" >>))

\* The line a>>a has been rejected for its second '>'.
C35_Witness ==
    /\ src = << "a", ">", ">", "a" >>
    /\ presult.some
    /\ ~presult.val.ok
    /\ presult.val.err = UnexpectedToken(<< ">" >>)


(***************************************************************************)
(* C36: what read_input hands to its caller                                *)
(***************************************************************************)
RECURSIVE Scan(_, _)
\* The quoting a text leaves open: a backslash takes the next character
\* whatever it is, a quote inside the other kind of quote is text.
Scan(q, text) ==
    IF text = <<>> THEN q
    ELSE LET c == Head(text)
         IN  Scan(IF q.escape THEN [q EXCEPT !.escape = FALSE]
                  ELSE IF c = Backslash THEN [q EXCEPT !.escape = TRUE]
                  ELSE IF c = "'" /\ ~q.double THEN [q EXCEPT !.single = ~@]
                  ELSE IF c = DQuote /\ ~q.single THEN [q EXCEPT !.double = ~@]
                  ELSE q,
                  Tail(text))

LeavesOpen(text) ==
    LET q == Scan([single |-> FALSE, double |-> FALSE, escape |-> FALSE], text)
    IN  q.single \/ q.double \/ q.escape

\* The characters a call of read_input is about to handle, after those of
\* the calls since the last hand-over.
TextSoFar == typed \o Trim(ReadLine(ti.reader).tmp_string)

\* C36: a call of read_input adds to the caller's buffer only when the
\* text read since the last hand-over leaves no single quote, no double
\* quote and no escape open; when it leaves one open the call returns 0,
\* the caller's buffer is as it was and the text kept inside is still
\* there; and after a hand-over the internal buffer and the continuation
\* prompt are empty.
C36_HandsOverOnlyClosedText ==
    [][ /\ buffer' # buffer => ~LeavesOpen(TextSoFar)
        /\ LeavesOpen(TextSoFar) =>
               /\ ret' = Some(OkCount(0))
               /\ buffer' = buffer
               /\ Len(ti'.internal_buffer) >= Len(ti.internal_buffer)
               /\ SubSeq(ti'.internal_buffer, 1, Len(ti.internal_buffer)) = ti.internal_buffer
        /\ buffer' # buffer => ti'.internal_buffer = <<>> /\ ti'.tmp_prompt = "" ]_vars

(***************************************************************************)
(* C37: the cursor of the Terminal                                         *)
(***************************************************************************)
\* C37: whatever keys have been pressed, the cursor is inside the buffer:
\* cursor_row < dimensions.rows and cursor_col <= dimensions.cols, and no
\* index into the buffer has been out of bounds.
C37_CursorStaysInside ==
    term.state # "idle" =>
        /\ term.state # "panicked"
        /\ term.cursor_row < term.dimensions.rows
        /\ term.cursor_col <= term.dimensions.cols

=============================================================================
